---------------------------- MODULE Spec2Model ----------------------------
(***************************************************************************)
(* Rate-limiting engines of go-echo-mongo (pkg/ratelimit/strategy) over    *)
(* the Redis-backed rate-limit repository (internal/repository/redisrepo). *)
(*                                                                         *)
(* Time is the wall clock in whole seconds (time.Now().Unix()).  The       *)
(* store is the Redis keyspace: a function from the keys that exist to     *)
(* their value and expiry.  A key whose expiry time has been reached no    *)
(* longer exists.  Every Allow call is a sequence of store round trips;    *)
(* each round trip is one atomic step of the worker that runs the call,    *)
(* and the clock may advance between any two steps.                        *)
(***************************************************************************)
EXTENDS Integers, Sequences, FiniteSets, TLC

VARIABLES
    now,      \* wall clock, seconds
    store,    \* Redis: key -> [val, hasExp, exp]
    cfg,      \* the constructed engine: its strategy and parameters
    pc,       \* worker -> position inside its Allow call
    loc,      \* worker -> locals of its Allow call
    bnd,      \* the bounds of the run: [maxTime, maxCount]
    hist,     \* history (ghost): key -> what the calls did to this key
    seen,     \* history (ghost): identifier -> highest window index a call used
    ideal,    \* history (ghost): identifier -> its bucket in a store that never expires
    last,     \* history (ghost): the call that returned in the step just taken
    req       \* the HTTP exchange the rate-limit middleware is serving

vars == <<now, store, cfg, bnd, pc, loc, hist, seen, ideal, last, req>>

----------------------------------------------------------------------------
(* Bounds of the model *)

MaxLimit == 3
NumProcs == 2
SeqMaxTime == 4
SeqMaxCount == 4
ConcMaxTime == 2
ConcMaxCount == 3

Procs == 1..NumProcs
Ids == {"api:k1", "ip:10.0.0.1"}
OneId == {"api:k1"}
WindowSizes == {2, 3}

Min(a, b) == IF a < b THEN a ELSE b

----------------------------------------------------------------------------
(* Redis commands (redisrepo.repository over go-redis) *)

Exists(s, k) == k \in DOMAIN s

IncrementFromZero(s, k) ==
    IF k \in DOMAIN s
    THEN [s EXCEPT ![k].val = @ + 1]
    ELSE [x \in DOMAIN s \cup {k} |->
            IF x = k THEN [val |-> 0, hasExp |-> FALSE, exp |-> 0] ELSE s[x]]

IncrementLosingExpiry(s, k) ==
    [x \in DOMAIN s \cup {k} |->
        IF x = k
        THEN [val |-> (IF k \in DOMAIN s THEN s[k].val ELSE 0) + 1,
              hasExp |-> FALSE, exp |-> 0]
        ELSE s[x]]

\* INCR: creates the key at 1 without expiry, otherwise adds 1 and keeps the expiry
Increment(s, k) ==
    IF k \in DOMAIN s
    THEN [s EXCEPT ![k].val = @ + 1]
    ELSE [x \in DOMAIN s \cup {k} |->
            IF x = k THEN [val |-> 1, hasExp |-> FALSE, exp |-> 0] ELSE s[x]]

\* EXPIRE: sets the expiry of an existing key to t + ttl; nothing for a missing key
Expire(s, k, t, ttl) ==
    IF k \in DOMAIN s
    THEN [s EXCEPT ![k].hasExp = TRUE, ![k].exp = t + ttl]
    ELSE s

\* the keys that still exist at time t
Alive(s, t) ==
    [k \in {x \in DOMAIN s : ~s[x].hasExp \/ s[x].exp > t} |-> s[k]]

----------------------------------------------------------------------------
(* Keys *)

WindowKeyNoWindow(prefix, id, w) == prefix \o ":" \o id

WindowKeyNoId(prefix, id, w) == prefix \o ":" \o ToString(w)

\* fmt.Sprintf("%s:%s:%d", s.keyPrefix, identifier, windowNum)
WindowKey(prefix, id, w) == prefix \o ":" \o id \o ":" \o ToString(w)

\* time.Now().Unix() / int64(s.windowSize.Seconds())
WindowNum(t, size) == t \div size

FixedPrefix == "rate_limit_fixed_window"

----------------------------------------------------------------------------
(* Locals and history *)

NoLoc == [id |-> "", key |-> "", w |-> 0, val |-> 0, t0 |-> 0, newWin |-> FALSE,
          prevKey |-> "", phase |-> "", off |-> 0, cur |-> 0, prev |-> 0,
          snap |-> <<>>, state |-> [tokens |-> 0, lastRefill |-> 0],
          newState |-> [tokens |-> 0, lastRefill |-> 0],
          fresh |-> FALSE, idealOk |-> FALSE, ok |-> FALSE, ord |-> 0,
          first |-> 0]

NoLast == [kind |-> "none", id |-> "", key |-> "", w |-> 0, ok |-> FALSE,
           ord |-> 0, val |-> 0, inWin |-> FALSE, newWin |-> FALSE,
           err |-> FALSE, t0 |-> 0, prevKey |-> "", snap |-> <<>>,
           born |-> 0, idealOk |-> FALSE, fresh |-> FALSE,
           read |-> [tokens |-> 0, lastRefill |-> 0], tnow |-> 0]

NoHist == [id |-> "", w |-> 0, incrs |-> 0, calls |-> 0, permits |-> 0,
           allIn |-> TRUE, conc |-> 0, born |-> -1]

HistOf(k) == IF k \in DOMAIN hist THEN hist[k] ELSE NoHist

\* the history restricted to the keys of s, with key k set to h
HistPut(s, k, h) ==
    [x \in DOMAIN s |-> IF x = k THEN h ELSE HistOf(x)]

InFlight(k) == Cardinality({p \in Procs : pc[p] # "idle" /\ loc[p].key = k})

----------------------------------------------------------------------------
(* Requests and identifiers *)

\* a request: its X-API-Key header ("" when not sent), c.RealIP() and URL path
Requests == [apiKey : {"", "k1"}, ip : {"10.0.0.1"}, path : {"/a", "/b"}]

ExtractIgnoringPath(rq) ==
    IF rq.apiKey # "" THEN "api:" \o rq.apiKey ELSE "ip:" \o rq.ip

ExtractUntagged(rq) ==
    IF rq.apiKey # "" THEN rq.apiKey ELSE rq.ip

\* IdentifierExtractor of New<Strategy>Middleware
ExtractGlobal(rq) ==
    IF rq.apiKey # "" THEN "api:" \o rq.apiKey ELSE "ip:" \o rq.ip

\* IdentifierExtractor of New<Strategy>MiddlewarePerPath
ExtractPerPath(rq) ==
    IF rq.apiKey # ""
    THEN "api:" \o rq.apiKey \o ":" \o rq.path
    ELSE "ip:" \o rq.ip \o ":" \o rq.path

Extract(perPath, rq) == IF perPath THEN ExtractPerPath(rq) ELSE ExtractGlobal(rq)

\* every identifier an extractor produces
\* requests without X-API-Key; c.RealIP() is the empty string when neither a
\* forwarding header nor RemoteAddr yields an address
AnonRequests == [apiKey : {""}, ip : {"", "10.0.0.1"}, path : {"/a", "/b"}]

AllIds == Ids \cup {Extract(pp, rq) : pp \in BOOLEAN,
                                      rq \in Requests \cup AnonRequests}

NoReq == [n |-> 0, stage |-> "none", rq |-> [apiKey |-> "", ip |-> "", path |-> ""],
          id |-> "", allows |-> 0, allowOk |-> FALSE, allowErr |-> FALSE,
          failed |-> FALSE, infos |-> 0, infoId |-> "", infoErr |-> FALSE,
          status |-> 0, body |-> "", headers |-> <<>>, handler |-> 0,
          first |-> FALSE, served |-> {}, cancelled |-> FALSE,
          infoAt |-> 0, again |-> FALSE, prev |-> <<>>, prevAt |-> 0,
          log |-> <<>>, at |-> 0]

----------------------------------------------------------------------------
(* Clock *)

Tick ==
    /\ now < bnd.maxTime
    /\ now' = now + 1
    /\ store' = Alive(store, now + 1)
    /\ hist' = [k \in DOMAIN Alive(store, now + 1) |-> HistOf(k)]
    /\ last' = NoLast
    /\ UNCHANGED <<cfg, bnd, pc, loc, seen, ideal>>

----------------------------------------------------------------------------
(* Fixed Window: FixedWindowStore.Allow *)

FixedDecisionStrict(count, limit) == count < limit

\* return count <= s.limit
FixedDecision(count, limit) == count <= limit

\* windowNum and key are computed from the clock before the store is called
FWBegin(p, id) ==
    /\ pc[p] = "idle"
    /\ LET w == WindowNum(now, cfg.windowSize)
           k == WindowKey(FixedPrefix, id, w)
       IN /\ (IF Exists(store, k) THEN store[k].val ELSE 0) + InFlight(k) < bnd.maxCount
          /\ loc' = [loc EXCEPT ![p] = [NoLoc EXCEPT !.id = id, !.key = k,
                                                     !.w = w, !.t0 = now,
                                                     !.newWin = (w > seen[id])]]
          /\ seen' = [seen EXCEPT ![id] = IF w > @ THEN w ELSE @]
    /\ pc' = [pc EXCEPT ![p] = "fw_incr"]
    /\ last' = NoLast
    /\ UNCHANGED <<now, store, cfg, bnd, hist, ideal>>

\* what a returning call leaves in the history
FWReturned(p, l, s, h) ==
    /\ last' = [NoLast EXCEPT
                  !.kind = "fw", !.id = l.id, !.key = l.key, !.w = l.w,
                  !.ok = FixedDecision(l.val, cfg.limit),
                  !.ord = h.calls + 1, !.val = l.val,
                  !.inWin = h.allIn, !.newWin = l.newWin, !.t0 = l.t0]
    /\ hist' = HistPut(s, l.key,
                 [h EXCEPT !.calls = @ + 1,
                           !.permits = @ + (IF FixedDecision(l.val, cfg.limit)
                                            THEN 1 ELSE 0)])
    /\ pc' = [pc EXCEPT ![p] = "idle"]
    /\ loc' = [loc EXCEPT ![p] = NoLoc]

\* as FWIncr, but a call that finds the limit reached is denied without being counted
FWIncrUnderLimitOnly(p) ==
    /\ pc[p] = "fw_incr"
    /\ LET k == loc[p].key
           full == Exists(store, k) /\ store[k].val >= cfg.limit
           s == IF full THEN store ELSE Increment(store, k)
           v == IF full THEN store[k].val + 1 ELSE s[k].val
           h == [HistOf(k) EXCEPT
                   !.id = loc[p].id,
                   !.w = loc[p].w,
                   !.incrs = @ + 1,
                   !.conc = IF InFlight(k) > @ THEN InFlight(k) ELSE @,
                   !.allIn = @ /\ WindowNum(now, cfg.windowSize) = loc[p].w]
       IN /\ store' = s
          /\ IF v = 1 /\ cfg.windowSize > 0
             THEN /\ pc' = [pc EXCEPT ![p] = "fw_expire"]
                  /\ loc' = [loc EXCEPT ![p].val = v]
                  /\ hist' = HistPut(s, k, h)
                  /\ last' = NoLast
             ELSE FWReturned(p, [loc[p] EXCEPT !.val = v], s, h)
    /\ UNCHANGED <<now, cfg, bnd, seen, ideal>>

\* IncrementPreserveTTL: r.redis.Increment(ctx, key)
FWIncr(p) ==
    /\ pc[p] = "fw_incr"
    /\ LET k == loc[p].key
           s == Increment(store, k)
           v == s[k].val
           h == [HistOf(k) EXCEPT
                   !.id = loc[p].id,
                   !.w = loc[p].w,
                   !.incrs = @ + 1,
                   !.conc = IF InFlight(k) > @ THEN InFlight(k) ELSE @,
                   !.allIn = @ /\ WindowNum(now, cfg.windowSize) = loc[p].w]
       IN /\ store' = s
          /\ IF v = 1 /\ cfg.windowSize > 0
             THEN /\ pc' = [pc EXCEPT ![p] = "fw_expire"]
                  /\ loc' = [loc EXCEPT ![p].val = v]
                  /\ hist' = HistPut(s, k, h)
                  /\ last' = NoLast
             ELSE FWReturned(p, [loc[p] EXCEPT !.val = v], s, h)
    /\ UNCHANGED <<now, cfg, bnd, seen, ideal>>

\* IncrementPreserveTTL: r.redis.Expire(ctx, key, defaultExpiration), then return
FWExpire(p) ==
    /\ pc[p] = "fw_expire"
    /\ LET k == loc[p].key
           s == Expire(store, k, now, cfg.windowSize)
       IN /\ store' = s
          /\ FWReturned(p, loc[p], s, HistOf(k))
    /\ UNCHANGED <<now, cfg, bnd, seen, ideal>>

----------------------------------------------------------------------------
(* Fixed Window specifications *)

InitCommon ==
    /\ now = 0
    /\ store = <<>>
    /\ hist = <<>>
    /\ pc = [p \in Procs |-> "idle"]
    /\ loc = [p \in Procs |-> NoLoc]
    /\ last = NoLast
    /\ seen = [id \in AllIds |-> -1]
    /\ ideal = [id \in AllIds |-> [has |-> FALSE, tokens |-> 0, lastRefill |-> 0]]
    /\ req = NoReq

InitFW ==
    /\ InitCommon
    /\ cfg \in [strategy : {"fixed_window"}, limit : 1..MaxLimit,
                windowSize : WindowSizes]

SeqBounds == [maxTime |-> SeqMaxTime, maxCount |-> SeqMaxCount]
ConcBounds == [maxTime |-> ConcMaxTime, maxCount |-> ConcMaxCount]

\* one worker: calls follow one another
NextFWSeq ==
    /\ \/ Tick
       \/ \E id \in Ids : FWBegin(1, id)
       \/ FWIncr(1)
       \/ FWExpire(1)
    /\ UNCHANGED req

InitFWSeq == InitFW /\ bnd = SeqBounds

SpecFWSeq == InitFWSeq /\ [][NextFWSeq]_vars

\* several workers: calls overlap
NextFW ==
    /\ \/ Tick
       \/ \E p \in Procs, id \in OneId : FWBegin(p, id)
       \/ \E p \in Procs : FWIncr(p)
       \/ \E p \in Procs : FWExpire(p)
    /\ UNCHANGED req

InitFWConc == InitFW /\ bnd = ConcBounds

SpecFW == InitFWConc /\ [][NextFW]_vars

----------------------------------------------------------------------------
(* Sliding Window: SlidingWindowStore.Allow *)

SlidingPrefix == "rate_limit_sliding_window"

\* the value a counter key reads as: 0 when the key does not exist
CountOf(s, k) == IF k \in DOMAIN s THEN s[k].val ELSE 0

\* (offset, windowSize) for which the binary64 value of
\* 1 - float64(offset)/float64(windowSize) lies below the exact fraction far
\* enough that its product with a multiple of windowSize lies below the exact
\* integer: 1 - 4.0/5.0 = 0.19999999999999996 and 5 * 0.19999999999999996 =
\* 0.9999999999999998, 1 - 5.0/6.0 = 0.16666666666666663.  For every other
\* offset of a window of at most 7 s and every count up to 40 the truncated
\* binary64 product equals the exact floor.
RoundsBelow == {<<4, 5>>, <<5, 6>>}

\* floor(previousCount * (windowSize - offset) / windowSize), in exact arithmetic
ExactWeighted(prev, off, size) == (prev * (size - off)) \div size

\* offset := float64(now.Unix() % size) / float64(size); previousWeight := 1 - offset
\* int(float64(previousCount) * previousWeight)
Weighted(prev, off, size) ==
    IF /\ <<off, size>> \in RoundsBelow
       /\ prev > 0
       /\ (prev * (size - off)) % size = 0
    THEN ExactWeighted(prev, off, size) - 1
    ELSE ExactWeighted(prev, off, size)

\* if weightedCount >= s.limit { return false, nil }
SlidingOver(weighted, limit) == weighted >= limit

\* now, both window numbers and both keys are computed before the store is called
SWBegin(p, id) ==
    /\ pc[p] = "idle"
    /\ LET w == WindowNum(now, cfg.windowSize)
       IN loc' = [loc EXCEPT ![p] =
                    [NoLoc EXCEPT !.id = id, !.w = w, !.t0 = now,
                                  !.key = WindowKey(SlidingPrefix, id, w),
                                  !.prevKey = WindowKey(SlidingPrefix, id, w - 1),
                                  !.off = now % cfg.windowSize,
                                  !.phase = "cur", !.snap = store]]
    /\ pc' = [pc EXCEPT ![p] = "sw_exists"]
    /\ last' = NoLast
    /\ UNCHANGED <<now, store, cfg, bnd, hist, seen, ideal>>

\* what a returning call leaves in the history
SWReturned(p, l, s, ok, err) ==
    /\ last' = [NoLast EXCEPT
                  !.kind = "sw", !.id = l.id, !.key = l.key, !.w = l.w,
                  !.ok = ok, !.err = err, !.t0 = l.t0,
                  !.prevKey = l.prevKey, !.snap = l.snap]
    /\ hist' = [k \in DOMAIN s |->
                 IF k = l.key
                 THEN [HistOf(k) EXCEPT !.id = l.id, !.w = l.w,
                                        !.permits = @ + (IF ok THEN 1 ELSE 0)]
                 ELSE HistOf(k)]
    /\ pc' = [pc EXCEPT ![p] = "idle"]
    /\ loc' = [loc EXCEPT ![p] = NoLoc]

\* a Check has produced v: the next Check, or the decision
SWChecked(p, v) ==
    IF loc[p].phase = "cur"
    THEN /\ loc' = [loc EXCEPT ![p].cur = v, ![p].phase = "prev"]
         /\ pc' = [pc EXCEPT ![p] = "sw_exists"]
         /\ last' = NoLast
         /\ UNCHANGED hist
    ELSE IF SlidingOver(Weighted(v, loc[p].off, cfg.windowSize) + loc[p].cur,
                        cfg.limit)
         THEN SWReturned(p, loc[p], store, FALSE, FALSE)
         ELSE /\ loc' = [loc EXCEPT ![p].prev = v, ![p].phase = "incr"]
              /\ pc' = [pc EXCEPT ![p] = "sw_incr"]
              /\ last' = NoLast
              /\ UNCHANGED hist

CheckedKey(p) == IF loc[p].phase = "cur" THEN loc[p].key ELSE loc[p].prevKey

\* Check: r.redis.Exists(ctx, key); a missing key reads as 0
SWExists(p) ==
    /\ pc[p] = "sw_exists"
    /\ IF Exists(store, CheckedKey(p))
       THEN /\ pc' = [pc EXCEPT ![p] = "sw_get"]
            /\ last' = NoLast
            /\ UNCHANGED <<loc, hist>>
       ELSE SWChecked(p, 0)
    /\ UNCHANGED <<now, store, cfg, bnd, seen, ideal>>

\* Check: r.redis.Get(ctx, key); a key that is gone by now is an error
SWGet(p) ==
    /\ pc[p] = "sw_get"
    /\ IF Exists(store, CheckedKey(p))
       THEN SWChecked(p, store[CheckedKey(p)].val)
       ELSE SWReturned(p, loc[p], store, FALSE, TRUE)
    /\ UNCHANGED <<now, store, cfg, bnd, seen, ideal>>

SWIncrPrevious(p) ==
    /\ pc[p] = "sw_incr"
    /\ LET s == Increment(store, loc[p].prevKey)
       IN /\ store' = s
          /\ SWReturned(p, loc[p], s, TRUE, FALSE)
    /\ UNCHANGED <<now, cfg, bnd, seen, ideal>>

\* IncrementPreserveTTL(ctx, currentKey, s.windowSize*2): r.redis.Increment
SWIncr(p) ==
    /\ pc[p] = "sw_incr"
    /\ LET k == loc[p].key
           s == Increment(store, k)
       IN /\ store' = s
          /\ IF s[k].val = 1 /\ cfg.windowSize * 2 > 0
             THEN /\ pc' = [pc EXCEPT ![p] = "sw_expire"]
                  /\ hist' = [x \in DOMAIN s |-> HistOf(x)]
                  /\ last' = NoLast
                  /\ UNCHANGED loc
             ELSE SWReturned(p, loc[p], s, TRUE, FALSE)
    /\ UNCHANGED <<now, cfg, bnd, seen, ideal>>

\* as SWExpire, with the duration of one window
SWExpireOneWindow(p) ==
    /\ pc[p] = "sw_expire"
    /\ LET s == Expire(store, loc[p].key, now, cfg.windowSize)
       IN /\ store' = s
          /\ SWReturned(p, loc[p], s, TRUE, FALSE)
    /\ UNCHANGED <<now, cfg, bnd, seen, ideal>>

\* IncrementPreserveTTL: r.redis.Expire(ctx, key, defaultExpiration), then return true
SWExpire(p) ==
    /\ pc[p] = "sw_expire"
    /\ LET s == Expire(store, loc[p].key, now, cfg.windowSize * 2)
       IN /\ store' = s
          /\ SWReturned(p, loc[p], s, TRUE, FALSE)
    /\ UNCHANGED <<now, cfg, bnd, seen, ideal>>

----------------------------------------------------------------------------
(* Sliding Window specifications *)

SWMaxLimit == 5
SWMaxTime == 9
SWWindowSizes == {2, 5}

InitSWSeq ==
    /\ InitCommon
    /\ cfg \in [strategy : {"sliding_window"}, limit : 1..SWMaxLimit,
                windowSize : SWWindowSizes]
    /\ bnd = [maxTime |-> SWMaxTime, maxCount |-> 0]

NextSWSeq ==
    /\ \/ Tick
       \/ \E id \in OneId : SWBegin(1, id)
       \/ SWExists(1)
       \/ SWGet(1)
       \/ SWIncr(1)
       \/ SWExpire(1)
    /\ UNCHANGED req

SpecSWSeq == InitSWSeq /\ [][NextSWSeq]_vars

InitSWConc ==
    /\ InitCommon
    /\ cfg \in [strategy : {"sliding_window"}, limit : 1..MaxLimit,
                windowSize : WindowSizes]
    /\ bnd = ConcBounds

NextSW ==
    /\ \/ Tick
       \/ \E p \in Procs, id \in OneId : SWBegin(p, id)
       \/ \E p \in Procs : SWExists(p)
       \/ \E p \in Procs : SWGet(p)
       \/ \E p \in Procs : SWIncr(p)
       \/ \E p \in Procs : SWExpire(p)
    /\ UNCHANGED req

SpecSW == InitSWConc /\ [][NextSW]_vars

----------------------------------------------------------------------------
(* Token Bucket: TokenBucketStore.Allow *)
(*                                                                         *)
(* rate is the fraction rateNum/rateDen tokens per second and a token      *)
(* count is kept as a whole number of 1/rateDen tokens.  With the clock in *)
(* whole seconds and rateDen a power of two every value is a float64 and   *)
(* the code's float64 arithmetic is exact on it.                           *)

TokenPrefix == "rate_limit_token_bucket"

\* fmt.Sprintf("%s:%s", s.keyPrefix, identifier)
BucketKey(prefix, id) == prefix \o ":" \o id

\* SET key value EX expiration; an expiration of 0 sets no expiry
Set(s, k, v, t, ttl) ==
    [x \in DOMAIN s \cup {k} |->
        IF x = k THEN [val |-> v, hasExp |-> ttl > 0, exp |-> t + ttl] ELSE s[x]]

\* a blob json.Unmarshal accepts; Garbage is one it rejects
Decodable(js) == Len(js) = 4
Garbage == <<"garbage">>

\* json.Marshal(tokenBucketState) and json.Unmarshal
MarshalBucket(st) == <<"tokens", st.tokens, "last_refill", st.lastRefill>>
UnmarshalBucket(js) == [tokens |-> js[2], lastRefill |-> js[4]]

OneToken == cfg.rateDen
BurstTokens == cfg.burst * cfg.rateDen

TBFreshEmpty(t) == [tokens |-> 0, lastRefill |-> t]

\* getBucketState on "not found": {Tokens: float64(s.burst), LastRefill: time.Now()}
TBFresh(t) == [tokens |-> BurstTokens, lastRefill |-> t]

RefillUncapped(st, t) == st.tokens + (t - st.lastRefill) * cfg.rateNum

\* newTokens := state.Tokens + elapsed*s.rate, capped at float64(s.burst)
Refill(st, t) ==
    Min(BurstTokens, st.tokens + (t - st.lastRefill) * cfg.rateNum)

TBBegin(p, id) ==
    /\ pc[p] = "idle"
    /\ loc' = [loc EXCEPT ![p] =
                 [NoLoc EXCEPT !.id = id, !.key = BucketKey(TokenPrefix, id),
                               !.t0 = now, !.snap = store]]
    /\ pc' = [pc EXCEPT ![p] = "tb_get"]
    /\ last' = NoLast
    /\ UNCHANGED <<now, store, cfg, bnd, hist, seen, ideal>>

\* getBucketState: s.repo.GetState(ctx, key), json.Unmarshal
TBGet(p) ==
    /\ pc[p] = "tb_get"
    /\ Exists(store, loc[p].key) => Decodable(store[loc[p].key].val)
    /\ LET k == loc[p].key
       IN loc' = [loc EXCEPT
                    ![p].fresh = ~Exists(store, k),
                    ![p].state = IF Exists(store, k)
                                 THEN UnmarshalBucket(store[k].val)
                                 ELSE TBFresh(now)]
    /\ pc' = [pc EXCEPT ![p] = "tb_decide"]
    /\ last' = NoLast
    /\ UNCHANGED <<now, store, cfg, bnd, hist, seen, ideal>>

\* the same call on the bucket of a store that never expires
IdealStep(id, t) ==
    LET st == IF ideal[id].has THEN ideal[id] ELSE [TBFresh(t) EXCEPT !.lastRefill = t]
        n == Min(BurstTokens, st.tokens + (t - st.lastRefill) * cfg.rateNum)
    IN [ok |-> n >= OneToken,
        next |-> IF n >= OneToken
                 THEN [has |-> TRUE, tokens |-> n - OneToken, lastRefill |-> t]
                 ELSE [has |-> TRUE, tokens |-> st.tokens, lastRefill |-> st.lastRefill]]

\* what a returning call leaves in the history
TBReturned(p, l, s, ok) ==
    /\ last' = [NoLast EXCEPT
                  !.kind = "tb", !.id = l.id, !.key = l.key, !.ok = ok,
                  !.t0 = l.t0, !.snap = l.snap, !.fresh = l.fresh,
                  !.read = l.state, !.tnow = l.val, !.idealOk = l.idealOk,
                  !.born = IF l.fresh THEN l.t0 ELSE HistOf(l.key).born,
                  !.ord = (IF l.fresh THEN 0 ELSE HistOf(l.key).permits) + 1]
    /\ hist' = [k \in DOMAIN s |->
                 IF k = l.key
                 THEN [NoHist EXCEPT
                         !.id = l.id,
                         !.born = IF l.fresh THEN l.t0 ELSE HistOf(k).born,
                         !.permits = (IF l.fresh THEN 0 ELSE HistOf(k).permits)
                                       + (IF ok THEN 1 ELSE 0)]
                 ELSE HistOf(k)]
    /\ pc' = [pc EXCEPT ![p] = "idle"]
    /\ loc' = [loc EXCEPT ![p] = NoLoc]

TBEnough(newTokens) == newTokens >= OneToken

\* as TBDecide, but a denied call saves the refilled state before it returns
TBDecideSaveOnDeny(p) ==
    /\ pc[p] = "tb_decide"
    /\ LET n == Refill(loc[p].state, now)
           i == IdealStep(loc[p].id, now)
           l == [loc[p] EXCEPT !.val = now, !.idealOk = i.ok]
           s == Set(store, l.key,
                    MarshalBucket([tokens |-> n, lastRefill |-> now]),
                    now, cfg.expiresIn)
       IN /\ ideal' = [ideal EXCEPT ![loc[p].id] = i.next]
          /\ IF TBEnough(n)
             THEN /\ loc' = [loc EXCEPT
                              ![p] = [l EXCEPT !.newState = [tokens |-> n - OneToken,
                                                             lastRefill |-> now]]]
                  /\ pc' = [pc EXCEPT ![p] = "tb_set"]
                  /\ last' = NoLast
                  /\ UNCHANGED <<hist, store>>
             ELSE /\ store' = s
                  /\ TBReturned(p, l, s, FALSE)
    /\ UNCHANGED <<now, cfg, bnd, seen>>

\* now := time.Now(); the refill; if newTokens < 1 { return false, nil };
\* state.Tokens = newTokens - 1; state.LastRefill = now
TBDecide(p) ==
    /\ pc[p] = "tb_decide"
    /\ LET n == Refill(loc[p].state, now)
           i == IdealStep(loc[p].id, now)
           l == [loc[p] EXCEPT !.val = now, !.idealOk = i.ok]
       IN /\ ideal' = [ideal EXCEPT ![loc[p].id] = i.next]
          /\ IF TBEnough(n)
             THEN /\ loc' = [loc EXCEPT
                              ![p] = [l EXCEPT !.newState = [tokens |-> n - OneToken,
                                                             lastRefill |-> now]]]
                  /\ pc' = [pc EXCEPT ![p] = "tb_set"]
                  /\ last' = NoLast
                  /\ UNCHANGED hist
             ELSE TBReturned(p, l, store, FALSE)
    /\ UNCHANGED <<now, store, cfg, bnd, seen>>

\* as TBSet, but the state is saved only if the stored one is still the one
\* that was read; otherwise the call is denied
TBSetIfUnchanged(p) ==
    /\ pc[p] = "tb_set"
    /\ LET k == loc[p].key
           same == IF Exists(store, k)
                   THEN ~loc[p].fresh /\ UnmarshalBucket(store[k].val) = loc[p].state
                   ELSE loc[p].fresh
           s == IF same
                THEN Set(store, k, MarshalBucket(loc[p].newState), now, cfg.expiresIn)
                ELSE store
       IN /\ store' = s
          /\ TBReturned(p, loc[p], s, same)
    /\ UNCHANGED <<now, cfg, bnd, seen, ideal>>

\* saveBucketState: json.Marshal, s.repo.SetState(ctx, key, json, s.expiresIn)
TBSet(p) ==
    /\ pc[p] = "tb_set"
    /\ LET s == Set(store, loc[p].key, MarshalBucket(loc[p].newState), now,
                    cfg.expiresIn)
       IN /\ store' = s
          /\ TBReturned(p, loc[p], s, TRUE)
    /\ UNCHANGED <<now, cfg, bnd, seen, ideal>>

----------------------------------------------------------------------------
(* Token Bucket specifications *)

MaxBurst == 2
TBMaxTime == 5
Rates == {<<1, 2>>, <<1, 1>>, <<2, 1>>}
Expiries == {2, 6}

InitTBSeq ==
    /\ InitCommon
    /\ \E r \in Rates, b \in 1..MaxBurst, e \in Expiries :
          cfg = [strategy |-> "token_bucket", rateNum |-> r[1], rateDen |-> r[2],
                 burst |-> b, expiresIn |-> e]
    /\ bnd = [maxTime |-> TBMaxTime, maxCount |-> 0]

NextTBSeq ==
    /\ \/ Tick
       \/ \E id \in OneId : TBBegin(1, id)
       \/ TBGet(1)
       \/ TBDecide(1)
       \/ TBSet(1)
    /\ UNCHANGED req

SpecTBSeq == InitTBSeq /\ [][NextTBSeq]_vars

----------------------------------------------------------------------------
(* Leaky Bucket: LeakyBucketStore.Allow *)
(*                                                                         *)
(* leakRate is the fraction rateNum/rateDen units per second; water is an  *)
(* int.  With the clock in whole seconds and rateDen a power of two the    *)
(* product elapsed * leakRate is exact in float64 and int() of it is the   *)
(* floor.                                                                  *)

LeakyPrefix == "rate_limit_leaky_bucket"

\* json.Marshal(leakyBucketState) and json.Unmarshal
MarshalLeaky(st) == <<"water", st.water, "last_leak", st.lastLeak>>
UnmarshalLeaky(js) == [water |-> js[2], lastLeak |-> js[4]]

\* getBucketState on "not found": {Water: 0, LastLeak: time.Now()}
LBFresh(t) == [water |-> 0, lastLeak |-> t]

\* leaked := int(elapsed * s.leakRate)
Leaked(st, t) == ((t - st.lastLeak) * cfg.rateNum) \div cfg.rateDen

\* state.Water = max(0, state.Water-leaked)
Drained(st, t) ==
    IF st.water - Leaked(st, t) > 0 THEN st.water - Leaked(st, t) ELSE 0

LBBegin(p, id) ==
    /\ pc[p] = "idle"
    /\ loc' = [loc EXCEPT ![p] =
                 [NoLoc EXCEPT !.id = id, !.key = BucketKey(LeakyPrefix, id),
                               !.t0 = now, !.snap = store]]
    /\ pc' = [pc EXCEPT ![p] = "lb_get"]
    /\ last' = NoLast
    /\ UNCHANGED <<now, store, cfg, bnd, hist, seen, ideal>>

\* getBucketState: s.repo.GetState(ctx, key), json.Unmarshal
LBGet(p) ==
    /\ pc[p] = "lb_get"
    /\ Exists(store, loc[p].key) => Decodable(store[loc[p].key].val)
    /\ LET k == loc[p].key
       IN loc' = [loc EXCEPT
                    ![p].fresh = ~Exists(store, k),
                    ![p].state = IF Exists(store, k)
                                 THEN UnmarshalLeaky(store[k].val)
                                 ELSE LBFresh(now)]
    /\ pc' = [pc EXCEPT ![p] = "lb_decide"]
    /\ last' = NoLast
    /\ UNCHANGED <<now, store, cfg, bnd, hist, seen, ideal>>

\* the same call on the bucket of a store that never expires; first is the
\* time of the identifier's first call and permits the permits since then
LBIdealStep(id, t) ==
    LET st == IF ideal[id].has THEN ideal[id]
              ELSE [has |-> TRUE, water |-> 0, lastLeak |-> t,
                    first |-> t, permits |-> 0]
        w == Drained(st, t)
    IN [ok |-> w < cfg.capacity,
        ord |-> st.permits + 1,
        first |-> st.first,
        next |-> IF w < cfg.capacity
                 THEN [st EXCEPT !.water = w + 1, !.lastLeak = t,
                                 !.permits = @ + 1]
                 ELSE [st EXCEPT !.water = w]]

\* what a returning call leaves in the history
LBReturned(p, l, s) ==
    /\ last' = [NoLast EXCEPT
                  !.kind = "lb", !.id = l.id, !.key = l.key, !.ok = l.ok,
                  !.t0 = l.t0, !.snap = l.snap, !.fresh = l.fresh,
                  !.read = l.state, !.tnow = l.val, !.idealOk = l.idealOk,
                  !.born = l.first, !.ord = l.ord,
                  !.val = (IF l.fresh THEN 0 ELSE HistOf(l.key).permits) + 1]
    /\ hist' = [k \in DOMAIN s |->
                 IF k = l.key
                 THEN [NoHist EXCEPT
                         !.id = l.id,
                         !.born = IF l.fresh THEN l.t0 ELSE HistOf(k).born,
                         !.permits = (IF l.fresh THEN 0 ELSE HistOf(k).permits)
                                       + (IF l.ok THEN 1 ELSE 0)]
                 ELSE HistOf(k)]
    /\ pc' = [pc EXCEPT ![p] = "idle"]
    /\ loc' = [loc EXCEPT ![p] = NoLoc]

\* if state.Water >= s.capacity { deny }
LBHasRoom(water) == water < cfg.capacity

\* the same as LBDecide, but a denial returns without saving
LBDecideNoSaveOnDeny(p) ==
    /\ pc[p] = "lb_decide"
    /\ LET w == Drained(loc[p].state, now)
           i == LBIdealStep(loc[p].id, now)
           ok == LBHasRoom(w)
           l == [loc[p] EXCEPT
                   !.val = now, !.idealOk = i.ok, !.ok = ok,
                   !.ord = i.ord, !.first = i.first,
                   !.newState = [water |-> w + 1, lastLeak |-> now]]
       IN /\ ideal' = [ideal EXCEPT ![loc[p].id] = i.next]
          /\ IF ok
             THEN /\ loc' = [loc EXCEPT ![p] = l]
                  /\ pc' = [pc EXCEPT ![p] = "lb_set"]
                  /\ last' = NoLast
                  /\ UNCHANGED hist
             ELSE LBReturned(p, l, store)
    /\ UNCHANGED <<now, store, cfg, bnd, seen>>

\* the same as LBDecide, but a denial moves lastLeak to now
LBDecideMovesLastLeak(p) ==
    /\ pc[p] = "lb_decide"
    /\ LET w == Drained(loc[p].state, now)
           i == LBIdealStep(loc[p].id, now)
           ok == LBHasRoom(w)
       IN /\ ideal' = [ideal EXCEPT ![loc[p].id] = i.next]
          /\ loc' = [loc EXCEPT
                       ![p] = [loc[p] EXCEPT
                                 !.val = now, !.idealOk = i.ok, !.ok = ok,
                                 !.ord = i.ord, !.first = i.first,
                                 !.newState =
                                    IF ok
                                    THEN [water |-> w + 1, lastLeak |-> now]
                                    ELSE [water |-> w, lastLeak |-> now]]]
    /\ pc' = [pc EXCEPT ![p] = "lb_set"]
    /\ last' = NoLast
    /\ UNCHANGED <<now, store, cfg, bnd, hist, seen>>

\* now := time.Now(); the leak; a denial keeps LastLeak and saves the drained
\* water; a permit makes state.Water++ and state.LastLeak = now
LBDecide(p) ==
    /\ pc[p] = "lb_decide"
    /\ LET w == Drained(loc[p].state, now)
           i == LBIdealStep(loc[p].id, now)
           ok == LBHasRoom(w)
       IN /\ ideal' = [ideal EXCEPT ![loc[p].id] = i.next]
          /\ loc' = [loc EXCEPT
                       ![p] = [loc[p] EXCEPT
                                 !.val = now, !.idealOk = i.ok, !.ok = ok,
                                 !.ord = i.ord, !.first = i.first,
                                 !.newState =
                                    IF ok
                                    THEN [water |-> w + 1, lastLeak |-> now]
                                    ELSE [water |-> w,
                                          lastLeak |-> loc[p].state.lastLeak]]]
    /\ pc' = [pc EXCEPT ![p] = "lb_set"]
    /\ last' = NoLast
    /\ UNCHANGED <<now, store, cfg, bnd, hist, seen>>

\* saveBucketState: json.Marshal, s.repo.SetState(ctx, key, json, s.expiresIn)
LBSet(p) ==
    /\ pc[p] = "lb_set"
    /\ LET s == Set(store, loc[p].key, MarshalLeaky(loc[p].newState), now,
                    cfg.expiresIn)
       IN /\ store' = s
          /\ LBReturned(p, loc[p], s)
    /\ UNCHANGED <<now, cfg, bnd, seen, ideal>>

----------------------------------------------------------------------------
(* Leaky Bucket specifications *)

MaxCapacity == 2
LBMaxTime == 4
LBExpiries == {1, 6}

InitLBSeq ==
    /\ InitCommon
    /\ \E r \in Rates, c \in 1..MaxCapacity, e \in LBExpiries :
          cfg = [strategy |-> "leaky_bucket", rateNum |-> r[1], rateDen |-> r[2],
                 capacity |-> c, expiresIn |-> e]
    /\ bnd = [maxTime |-> LBMaxTime, maxCount |-> 0]

NextLBSeq ==
    /\ \/ Tick
       \/ \E id \in OneId : LBBegin(1, id)
       \/ LBGet(1)
       \/ LBDecide(1)
       \/ LBSet(1)
    /\ UNCHANGED req

SpecLBSeq == InitLBSeq /\ [][NextLBSeq]_vars

----------------------------------------------------------------------------
(* Both bucket strategies, several workers: calls overlap *)

BucketMaxTime == 1
BucketMaxCount == 2
BucketRates == {<<2, 1>>}
BucketExpiries == {1}

InitBuckets ==
    /\ InitCommon
    /\ \/ \E r \in BucketRates, b \in 1..MaxBurst, e \in BucketExpiries :
             cfg = [strategy |-> "token_bucket", rateNum |-> r[1],
                    rateDen |-> r[2], burst |-> b, expiresIn |-> e]
       \/ \E r \in BucketRates, c \in 1..MaxCapacity, e \in BucketExpiries :
             cfg = [strategy |-> "leaky_bucket", rateNum |-> r[1],
                    rateDen |-> r[2], capacity |-> c, expiresIn |-> e]
    /\ bnd = [maxTime |-> BucketMaxTime, maxCount |-> BucketMaxCount]

\* the two workers whose calls overlap
Pair == {p \in Procs : p <= 2}

NextBuckets ==
    /\ \/ Tick
       \/ \E p \in Pair, id \in OneId :
             /\ cfg.strategy = "token_bucket"
             /\ HistOf(BucketKey(TokenPrefix, id)).permits < bnd.maxCount
             /\ TBBegin(p, id)
       \/ \E p \in Pair : TBGet(p)
       \/ \E p \in Pair : TBDecide(p)
       \/ \E p \in Pair : TBSet(p)
       \/ \E p \in Pair, id \in OneId :
             /\ cfg.strategy = "leaky_bucket"
             /\ HistOf(BucketKey(LeakyPrefix, id)).permits < bnd.maxCount
             /\ LBBegin(p, id)
       \/ \E p \in Pair : LBGet(p)
       \/ \E p \in Pair : LBDecide(p)
       \/ \E p \in Pair : LBSet(p)
    /\ UNCHANGED req

SpecBuckets == InitBuckets /\ [][NextBuckets]_vars

----------------------------------------------------------------------------
(* Store failures *)

\* the store calls an Allow call can be waiting for
StoreCallPcs == {"fw_incr", "fw_expire", "sw_exists", "sw_get", "sw_incr",
                 "sw_expire", "tb_get", "tb_set", "lb_get", "lb_set"}

KindOf(strategy) ==
    CASE strategy = "fixed_window" -> "fw"
      [] strategy = "sliding_window" -> "sw"
      [] strategy = "token_bucket" -> "tb"
      [] strategy = "leaky_bucket" -> "lb"

\* Allow returns (false, err) from where it stands
AllowErrors(p) ==
    /\ last' = [NoLast EXCEPT
                  !.kind = KindOf(cfg.strategy), !.id = loc[p].id,
                  !.key = loc[p].key, !.prevKey = loc[p].prevKey,
                  !.ok = FALSE, !.err = TRUE, !.t0 = loc[p].t0,
                  !.snap = loc[p].snap]
    /\ pc' = [pc EXCEPT ![p] = "idle"]
    /\ loc' = [loc EXCEPT ![p] = NoLoc]
    /\ UNCHANGED <<now, store, cfg, bnd, hist, seen, ideal>>

\* as StoreFails, but the failure is taken for a denial: (false, nil)
StoreFailsAsDenial(p) ==
    /\ pc[p] \in StoreCallPcs
    /\ last' = [NoLast EXCEPT
                  !.kind = KindOf(cfg.strategy), !.id = loc[p].id,
                  !.key = loc[p].key, !.prevKey = loc[p].prevKey,
                  !.ok = FALSE, !.err = FALSE, !.t0 = loc[p].t0,
                  !.snap = loc[p].snap]
    /\ pc' = [pc EXCEPT ![p] = "idle"]
    /\ loc' = [loc EXCEPT ![p] = NoLoc]
    /\ UNCHANGED <<now, store, cfg, bnd, hist, seen, ideal>>

\* the store call in progress fails (transport error, timeout): every caller
\* returns the error at once: "if err != nil { return false, ... }"
StoreFails(p) ==
    /\ pc[p] \in StoreCallPcs
    /\ AllowErrors(p)

\* as GetUndecodable, but a blob that does not decode is taken for an absent one
GetUndecodableResets(p) ==
    /\ pc[p] \in {"tb_get", "lb_get"}
    /\ Exists(store, loc[p].key)
    /\ ~Decodable(store[loc[p].key].val)
    /\ loc' = [loc EXCEPT
                 ![p].fresh = TRUE,
                 ![p].state = IF pc[p] = "tb_get" THEN TBFresh(now) ELSE LBFresh(now)]
    /\ pc' = [pc EXCEPT ![p] = IF pc[p] = "tb_get" THEN "tb_decide" ELSE "lb_decide"]
    /\ last' = NoLast
    /\ UNCHANGED <<now, store, cfg, bnd, hist, seen, ideal>>

\* getBucketState: json.Unmarshal fails: "failed to unmarshal ... state"
GetUndecodable(p) ==
    /\ pc[p] \in {"tb_get", "lb_get"}
    /\ Exists(store, loc[p].key)
    /\ ~Decodable(store[loc[p].key].val)
    /\ AllowErrors(p)

\* another writer of the keyspace leaves bytes that are not a bucket state
\* (here: before the Allow call or the GetRateLimitInfo call of a request)
Garble ==
    /\ cfg.strategy \in {"token_bucket", "leaky_bucket"}
    /\ req.stage \in {"allow", "info"}
    /\ pc[1] = "idle"
    /\ \E k \in DOMAIN store :
          /\ Decodable(store[k].val)
          /\ store' = [store EXCEPT ![k].val = Garbage]
    /\ last' = NoLast
    /\ UNCHANGED <<now, cfg, bnd, pc, loc, hist, seen, ideal, req>>

----------------------------------------------------------------------------
(* GetRateLimitInfo of the four strategies *)

InfoPcs == {"info_exists", "info_get", "info_state"}

Windowed == cfg.strategy \in {"fixed_window", "sliding_window"}

Max0(n) == IF n < 0 THEN 0 ELSE n

FixedInfoUnclamped(w, count) ==
    [limit |-> cfg.limit, remaining |-> cfg.limit - count,
     reset |-> (w + 1) * cfg.windowSize]

\* FixedWindowStore.GetRateLimitInfo from the count read
FixedInfo(w, count) ==
    [limit |-> cfg.limit, remaining |-> Max0(cfg.limit - count),
     reset |-> (w + 1) * cfg.windowSize]

\* SlidingWindowStore.GetRateLimitInfo from the two counts read
SlidingInfo(w, off, cur, prev) ==
    [limit |-> cfg.limit,
     remaining |-> Max0(cfg.limit - (Weighted(prev, off, cfg.windowSize) + cur)),
     reset |-> (w + 1) * cfg.windowSize]

TokenInfoRoundedUp(st, t) ==
    [limit |-> cfg.burst,
     remaining |-> (Refill(st, t) + cfg.rateDen - 1) \div cfg.rateDen,
     reset |-> t + (BurstTokens - Refill(st, t)) \div cfg.rateNum]

\* TokenBucketStore.GetRateLimitInfo from the state read
TokenInfo(st, t) ==
    [limit |-> cfg.burst,
     remaining |-> Refill(st, t) \div cfg.rateDen,
     reset |-> t + (BurstTokens - Refill(st, t)) \div cfg.rateNum]

\* LeakyBucketStore.GetRateLimitInfo from the state read
LeakyInfo(st, t) ==
    [limit |-> cfg.capacity,
     remaining |-> Max0(cfg.capacity - Drained(st, t)),
     reset |-> IF Drained(st, t) > 0
               THEN t + (Drained(st, t) * cfg.rateDen) \div cfg.rateNum
               ELSE t]

\* GetRateLimitInfo returned info: SetRateLimitHeaders, c.JSON(429, ...)
InfoAnswers(p, info) ==
    /\ req' = [req EXCEPT !.stage = "done", !.status = 429,
                          !.body = "Rate limit exceeded", !.headers = info,
                          !.infoAt = loc[p].t0]
    /\ pc' = [pc EXCEPT ![p] = "idle"]
    /\ loc' = [loc EXCEPT ![p] = NoLoc]

\* GetRateLimitInfo returned an error: c.JSON(500, ...)
InfoErrors(p) ==
    /\ req' = [req EXCEPT !.stage = "done", !.status = 500, !.infoErr = TRUE,
                          !.body = "Failed to get rate limit info"]
    /\ pc' = [pc EXCEPT ![p] = "idle"]
    /\ loc' = [loc EXCEPT ![p] = NoLoc]

\* DenyHandler with err == nil calls s.GetRateLimitInfo(identifier): now, the
\* window numbers and the keys are computed before the store is called
InfoBegin(p) ==
    /\ pc[p] = "idle"
    /\ req.stage = "info"
    /\ req.infos = 0
    /\ req' = [req EXCEPT !.infos = @ + 1, !.infoId = req.id]
    /\ LET id == req.id
           w == IF Windowed THEN WindowNum(now, cfg.windowSize) ELSE 0
           prefix == CASE cfg.strategy = "fixed_window" -> FixedPrefix
                       [] cfg.strategy = "sliding_window" -> SlidingPrefix
                       [] cfg.strategy = "token_bucket" -> TokenPrefix
                       [] cfg.strategy = "leaky_bucket" -> LeakyPrefix
       IN loc' = [loc EXCEPT ![p] =
                    [NoLoc EXCEPT
                       !.id = id, !.w = w, !.t0 = now,
                       !.key = IF Windowed THEN WindowKey(prefix, id, w)
                               ELSE BucketKey(prefix, id),
                       !.prevKey = IF cfg.strategy = "sliding_window"
                                   THEN WindowKey(prefix, id, w - 1) ELSE "",
                       !.off = IF Windowed THEN now % cfg.windowSize ELSE 0,
                       !.phase = "cur"]]
    /\ pc' = [pc EXCEPT ![p] = IF Windowed THEN "info_exists" ELSE "info_state"]
    /\ last' = NoLast
    /\ UNCHANGED <<now, store, cfg, bnd, hist, seen, ideal>>

\* a Check of GetRateLimitInfo has produced v
InfoChecked(p, v) ==
    IF cfg.strategy = "fixed_window"
    THEN InfoAnswers(p, FixedInfo(loc[p].w, v))
    ELSE IF loc[p].phase = "cur"
         THEN /\ loc' = [loc EXCEPT ![p].cur = v, ![p].phase = "prev"]
              /\ pc' = [pc EXCEPT ![p] = "info_exists"]
              /\ UNCHANGED req
         ELSE InfoAnswers(p, SlidingInfo(loc[p].w, loc[p].off, loc[p].cur, v))

\* Check: r.redis.Exists(ctx, key); a missing key reads as 0
InfoExists(p) ==
    /\ pc[p] = "info_exists"
    /\ IF Exists(store, CheckedKey(p))
       THEN /\ pc' = [pc EXCEPT ![p] = "info_get"]
            /\ UNCHANGED <<loc, req>>
       ELSE InfoChecked(p, 0)
    /\ last' = NoLast
    /\ UNCHANGED <<now, store, cfg, bnd, hist, seen, ideal>>

\* as InfoGet, but the read counts as a call
InfoGetCounts(p) ==
    /\ pc[p] = "info_get"
    /\ IF Exists(store, CheckedKey(p))
       THEN InfoChecked(p, store[CheckedKey(p)].val)
       ELSE InfoErrors(p)
    /\ store' = Increment(store, CheckedKey(p))
    /\ last' = NoLast
    /\ UNCHANGED <<now, cfg, bnd, hist, seen, ideal>>

\* Check: r.redis.Get(ctx, key); a key that is gone by now is an error
InfoGet(p) ==
    /\ pc[p] = "info_get"
    /\ IF Exists(store, CheckedKey(p))
       THEN InfoChecked(p, store[CheckedKey(p)].val)
       ELSE InfoErrors(p)
    /\ last' = NoLast
    /\ UNCHANGED <<now, store, cfg, bnd, hist, seen, ideal>>

\* getBucketState, then now := time.Now() and the refill or the leak
InfoState(p) ==
    /\ pc[p] = "info_state"
    /\ LET k == loc[p].key
       IN IF Exists(store, k) /\ ~Decodable(store[k].val)
          THEN InfoErrors(p)
          ELSE IF cfg.strategy = "token_bucket"
               THEN InfoAnswers(p, TokenInfo(IF Exists(store, k)
                                             THEN UnmarshalBucket(store[k].val)
                                             ELSE TBFresh(now), now))
               ELSE InfoAnswers(p, LeakyInfo(IF Exists(store, k)
                                             THEN UnmarshalLeaky(store[k].val)
                                             ELSE LBFresh(now), now))
    /\ last' = NoLast
    /\ UNCHANGED <<now, store, cfg, bnd, hist, seen, ideal>>

\* the store call of GetRateLimitInfo in progress fails
InfoFails(p) ==
    /\ pc[p] \in InfoPcs
    /\ InfoErrors(p)
    /\ last' = NoLast
    /\ UNCHANGED <<now, store, cfg, bnd, hist, seen, ideal>>

----------------------------------------------------------------------------
(* The rate-limit middleware: middleware.RateLimiterWithConfig(config) *)

RouteRunsHandlerOnDenial(r, l) ==
    IF l.kind = "none" THEN r
    ELSE IF l.err
         THEN [r EXCEPT !.stage = "done", !.allowErr = TRUE, !.status = 500,
                        !.body = "Internal rate limit error"]
         ELSE [r EXCEPT !.stage = "done", !.allowOk = l.ok, !.handler = @ + 1,
                        !.status = 200]

\* what the middleware does with the value l that Allow returned:
\* allow -> next(c); !allow -> DenyHandler(c, identifier, err), which answers
\* 500 when err != nil and asks GetRateLimitInfo otherwise
Route(r, l) ==
    IF l.kind = "none" THEN r
    ELSE IF l.ok
         THEN [r EXCEPT !.stage = "done", !.allowOk = TRUE, !.handler = @ + 1,
                        !.status = 200]
         ELSE IF l.err
              THEN [r EXCEPT !.stage = "done", !.allowErr = TRUE, !.status = 500,
                             !.body = "Internal rate limit error"]
              ELSE [r EXCEPT !.stage = "info"]

\* a request arrives: config.IdentifierExtractor(c)
MWExtract(rq) ==
    /\ pc[1] = "idle"
    /\ req.stage \in {"none", "done"}
    /\ req.n < bnd.maxReq
    /\ req' = [NoReq EXCEPT !.n = req.n + 1, !.stage = "allow", !.rq = rq,
                            !.id = Extract(cfg.perPath, rq),
                            !.first = rq \notin req.served,
                            !.served = req.served \cup {rq}]
    /\ last' = NoLast
    /\ UNCHANGED <<now, store, cfg, bnd, pc, loc, hist, seen, ideal>>

\* config.Store.Allow(identifier)
MWAllow ==
    /\ req.stage = "allow"
    /\ req.allows = 0
    /\ req' = [req EXCEPT !.allows = @ + 1]
    /\ CASE cfg.strategy = "fixed_window" -> FWBegin(1, req.id)
         [] cfg.strategy = "sliding_window" -> SWBegin(1, req.id)
         [] cfg.strategy = "token_bucket" -> TBBegin(1, req.id)
         [] cfg.strategy = "leaky_bucket" -> LBBegin(1, req.id)

\* a step of the Allow call in progress, and what follows if it returns
MWAllowStep ==
    /\ \/ FWIncr(1)
       \/ FWExpire(1)
       \/ SWExists(1)
       \/ SWGet(1)
       \/ SWIncr(1)
       \/ SWExpire(1)
       \/ TBGet(1)
       \/ TBDecide(1)
       \/ TBSet(1)
       \/ LBGet(1)
       \/ LBDecide(1)
       \/ LBSet(1)
       \/ GetUndecodable(1)
    /\ req' = Route(req, last')

\* a store call of the Allow call in progress fails
MWAllowFails ==
    /\ StoreFails(1)
    /\ req' = [Route(req, last') EXCEPT !.failed = TRUE]

----------------------------------------------------------------------------
(* Middleware specification: one worker serves one request after another *)

MWMaxTime == 2
MWMaxCount == 2
MWMaxRequests == 2

MWConfigs ==
    {[strategy |-> "fixed_window", limit |-> 1, windowSize |-> 2],
     [strategy |-> "sliding_window", limit |-> 1, windowSize |-> 2],
     [strategy |-> "token_bucket", rateNum |-> 1, rateDen |-> 1, burst |-> 1,
      expiresIn |-> 2],
     [strategy |-> "leaky_bucket", rateNum |-> 1, rateDen |-> 1, capacity |-> 1,
      expiresIn |-> 2]}

\* the engine's parameters and whether the middleware is the per-path one
WithPerPath(c, pp) ==
    [f \in DOMAIN c \cup {"perPath"} |-> IF f = "perPath" THEN pp ELSE c[f]]

InitMW ==
    /\ InitCommon
    /\ \E c \in MWConfigs, pp \in BOOLEAN : cfg = WithPerPath(c, pp)
    /\ bnd = [maxTime |-> MWMaxTime, maxCount |-> MWMaxCount,
              maxReq |-> MWMaxRequests]

NextMW ==
    \/ Tick /\ UNCHANGED req
    \/ \E rq \in Requests : MWExtract(rq)
    \/ MWAllow
    \/ MWAllowStep
    \/ MWAllowFails
    \/ InfoBegin(1)
    \/ InfoExists(1)
    \/ InfoGet(1)
    \/ InfoState(1)
    \/ InfoFails(1)
    \/ Garble

SpecMW == InitMW /\ [][NextMW]_vars

----------------------------------------------------------------------------
(* Requests without an API key *)

AnonMaxTime == 2
AnonMaxCount == 3
AnonMaxRequests == 3

InitAnon ==
    /\ InitCommon
    /\ \E c \in MWConfigs : cfg = WithPerPath(c, FALSE)
    /\ bnd = [maxTime |-> AnonMaxTime, maxCount |-> AnonMaxCount,
              maxReq |-> AnonMaxRequests]

NextAnon ==
    \/ Tick /\ UNCHANGED req
    \/ \E rq \in AnonRequests : MWExtract(rq)
    \/ MWAllow
    \/ MWAllowStep
    \/ InfoBegin(1)
    \/ InfoExists(1)
    \/ InfoGet(1)
    \/ InfoState(1)

SpecAnon == InitAnon /\ [][NextAnon]_vars

----------------------------------------------------------------------------
(* A store that may never answer *)

HangMaxTime == 1
HangMaxCount == 2
HangMaxRequests == 2

InitHang ==
    /\ InitCommon
    /\ \E c \in MWConfigs : cfg = WithPerPath(c, FALSE)
    /\ bnd = [maxTime |-> HangMaxTime, maxCount |-> HangMaxCount,
              maxReq |-> HangMaxRequests]

\* the context of the request being served is cancelled (client gone, server
\* timeout). Allow(identifier) and GetRateLimitInfo(identifier) receive no
\* context and issue their store calls with ctx := context.Background(), so
\* the call in progress does not see it: pc and loc stay as they are.
Cancel ==
    /\ req.stage \in {"allow", "info"}
    /\ ~req.cancelled
    /\ req' = [req EXCEPT !.cancelled = TRUE]
    /\ last' = NoLast
    /\ UNCHANGED <<now, store, cfg, bnd, pc, loc, hist, seen, ideal>>

\* the steps of a call that need no answer from the store
LocalStep == TBDecide(1) \/ LBDecide(1)

NextHang ==
    \/ Tick /\ UNCHANGED req
    \/ \E rq \in Requests : MWExtract(rq)
    \/ MWAllow
    \/ MWAllowStep
    \/ InfoBegin(1)
    \/ InfoExists(1)
    \/ InfoGet(1)
    \/ InfoState(1)
    \/ Cancel

\* the request is eventually cancelled or timed out and the process keeps
\* running its own code; nothing obliges the store to answer
SpecHang ==
    /\ InitHang
    /\ [][NextHang]_vars
    /\ WF_vars(Cancel)
    /\ WF_vars(MWAllow)
    /\ WF_vars(LocalStep /\ req' = Route(req, last'))

----------------------------------------------------------------------------
(* GetRateLimitInfo called again *)

InfoMaxTime == 4
InfoMaxCount == 3
InfoMaxRequests == 3

InfoConfigs ==
    {[strategy |-> "fixed_window", limit |-> 1, windowSize |-> 2],
     [strategy |-> "fixed_window", limit |-> 2, windowSize |-> 3],
     [strategy |-> "sliding_window", limit |-> 1, windowSize |-> 2],
     [strategy |-> "token_bucket", rateNum |-> 1, rateDen |-> 2, burst |-> 1,
      expiresIn |-> 6],
     [strategy |-> "leaky_bucket", rateNum |-> 1, rateDen |-> 2, capacity |-> 1,
      expiresIn |-> 6]}

InitInfo ==
    /\ InitCommon
    /\ \E c \in InfoConfigs : cfg = WithPerPath(c, FALSE)
    /\ bnd = [maxTime |-> InfoMaxTime, maxCount |-> InfoMaxCount,
              maxReq |-> InfoMaxRequests]

\* the requests of one caller
OneCaller == {rq \in Requests : rq.apiKey = "k1" /\ rq.path = "/a"}

\* GetRateLimitInfo is called once more for the identifier of the denied
\* request, no Allow in between; the result of the call before is kept
InfoAgain ==
    /\ pc[1] = "idle"
    /\ req.stage = "done"
    /\ req.status = 429
    /\ req' = [req EXCEPT !.stage = "info", !.infos = 0, !.status = 0,
                          !.body = "", !.headers = <<>>, !.again = TRUE,
                          !.prev = req.headers, !.prevAt = req.infoAt]
    /\ last' = NoLast
    /\ UNCHANGED <<now, store, cfg, bnd, pc, loc, hist, seen, ideal>>

NextInfo ==
    \/ Tick /\ UNCHANGED req
    \/ \E rq \in OneCaller : MWExtract(rq)
    \/ MWAllow
    \/ MWAllowStep
    \/ InfoBegin(1)
    \/ InfoExists(1)
    \/ InfoGet(1)
    \/ InfoState(1)
    \/ InfoAgain

SpecInfo == InitInfo /\ [][NextInfo]_vars

----------------------------------------------------------------------------
(* Token Bucket over time, with a state that outlives the run *)

RateMaxTime == 4

InitTBRate ==
    /\ InitCommon
    /\ \E r \in Rates, b \in 1..MaxBurst :
          cfg = [strategy |-> "token_bucket", rateNum |-> r[1], rateDen |-> r[2],
                 burst |-> b, expiresIn |-> RateMaxTime + 1]
    /\ bnd = [maxTime |-> RateMaxTime, maxCount |-> 0]

\* the instants (now := time.Now() of the call) of the permitted calls so far
Logged(r, l) ==
    IF l.kind = "tb" /\ l.ok THEN [r EXCEPT !.log = Append(@, l.tnow)] ELSE r

\* a step of the Allow call in progress; a permit is logged when it returns
TBRateStep ==
    /\ \/ TBGet(1)
       \/ TBDecide(1)
       \/ TBSet(1)
    /\ req' = Logged(req, last')

NextTBRate ==
    \/ Tick /\ UNCHANGED req
    \/ (\E id \in OneId : TBBegin(1, id)) /\ UNCHANGED req
    \/ TBRateStep

SpecTBRate == InitTBRate /\ [][NextTBRate]_vars

----------------------------------------------------------------------------
(* Strategy selection: mwutil.NewRateLimiter *)

SelMaxTime == 1
SelMaxCount == 2
SelMaxRequests == 2

KnownTags == {"fixed_window", "sliding_window", "token_bucket", "leaky_bucket"}

\* RateLimitConfig values; two tags are none of the four constants
RateLimitConfigs ==
    [Strategy : KnownTags \cup {"", "adaptive"}, Limit : {1, 2}, Window : {2, 3},
     Burst : {1, 2}, Rate : {<<1, 2>>, <<1, 1>>}]

NewFixedWindowMiddleware(limit, windowSize) ==
    [strategy |-> "fixed_window", limit |-> limit, windowSize |-> windowSize]

NewSlidingWindowMiddleware(limit, windowSize) ==
    [strategy |-> "sliding_window", limit |-> limit, windowSize |-> windowSize]

NewTokenBucketMiddleware(rate, burst, expiresIn) ==
    [strategy |-> "token_bucket", rateNum |-> rate[1], rateDen |-> rate[2],
     burst |-> burst, expiresIn |-> expiresIn]

NewLeakyBucketMiddleware(capacity, leakRate, expiresIn) ==
    [strategy |-> "leaky_bucket", rateNum |-> leakRate[1], rateDen |-> leakRate[2],
     capacity |-> capacity, expiresIn |-> expiresIn]

\* log.Fatal: the process ends, no middleware is returned
Fatal == [strategy |-> "fatal"]

NewRateLimiterLeakyFromLimit(config, repoSet) ==
    IF ~repoSet THEN Fatal
    ELSE CASE config.Strategy = "fixed_window" ->
                NewFixedWindowMiddleware(config.Limit, config.Window)
           [] config.Strategy = "sliding_window" ->
                NewSlidingWindowMiddleware(config.Limit, config.Window)
           [] config.Strategy = "token_bucket" ->
                NewTokenBucketMiddleware(config.Rate, config.Burst, config.Window)
           [] config.Strategy = "leaky_bucket" ->
                NewLeakyBucketMiddleware(config.Limit, config.Rate, config.Window)
           [] OTHER ->
                NewFixedWindowMiddleware(config.Limit, config.Window)

NewRateLimiter(config, repoSet) ==
    IF ~repoSet THEN Fatal
    ELSE CASE config.Strategy = "fixed_window" ->
                NewFixedWindowMiddleware(config.Limit, config.Window)
           [] config.Strategy = "sliding_window" ->
                NewSlidingWindowMiddleware(config.Limit, config.Window)
           [] config.Strategy = "token_bucket" ->
                NewTokenBucketMiddleware(config.Rate, config.Burst, config.Window)
           [] config.Strategy = "leaky_bucket" ->
                NewLeakyBucketMiddleware(config.Burst, config.Rate, config.Window)
           [] OTHER ->
                NewFixedWindowMiddleware(config.Limit, config.Window)

\* the middleware built, with the configuration it was built from
Built(config, repoSet) ==
    LET m == NewRateLimiter(config, repoSet)
        extra == {"perPath", "config", "repoSet"}
    IN  [f \in DOMAIN m \cup extra |->
            CASE f = "perPath" -> FALSE
              [] f = "config" -> config
              [] f = "repoSet" -> repoSet
              [] OTHER -> m[f]]

InitSelect ==
    /\ InitCommon
    /\ \E config \in RateLimitConfigs, repoSet \in BOOLEAN :
          cfg = Built(config, repoSet)
    /\ bnd = [maxTime |-> SelMaxTime, maxCount |-> SelMaxCount,
              maxReq |-> SelMaxRequests]

\* the returned middleware serves requests; after log.Fatal there is none
Serving == cfg.strategy # "fatal"

NextSelect ==
    \/ Tick /\ UNCHANGED req
    \/ \E rq \in Requests : Serving /\ MWExtract(rq)
    \/ Serving /\ MWAllow
    \/ MWAllowStep
    \/ InfoBegin(1)
    \/ InfoExists(1)
    \/ InfoGet(1)
    \/ InfoState(1)

SpecSelect == InitSelect /\ [][NextSelect]_vars

----------------------------------------------------------------------------
(* GetRateLimitInfo and Allow side by side *)

AgreeMaxTime == 3
AgreeMaxCount == 3
AgreeMaxRequests == 4

AgreeConfigs ==
    {[strategy |-> "fixed_window", limit |-> 1, windowSize |-> 2],
     [strategy |-> "fixed_window", limit |-> 2, windowSize |-> 2],
     [strategy |-> "sliding_window", limit |-> 1, windowSize |-> 2],
     [strategy |-> "sliding_window", limit |-> 2, windowSize |-> 2],
     [strategy |-> "token_bucket", rateNum |-> 1, rateDen |-> 2, burst |-> 1,
      expiresIn |-> 2],
     [strategy |-> "token_bucket", rateNum |-> 1, rateDen |-> 2, burst |-> 2,
      expiresIn |-> 5],
     [strategy |-> "leaky_bucket", rateNum |-> 1, rateDen |-> 2, capacity |-> 1,
      expiresIn |-> 2],
     [strategy |-> "leaky_bucket", rateNum |-> 1, rateDen |-> 2, capacity |-> 2,
      expiresIn |-> 5]}

InitAgree ==
    /\ InitCommon
    /\ \E c \in AgreeConfigs : cfg = WithPerPath(c, FALSE)
    /\ bnd = [maxTime |-> AgreeMaxTime, maxCount |-> AgreeMaxCount,
              maxReq |-> AgreeMaxRequests]

\* a request arrives at the middleware; the instant is kept
Arrive(rq) ==
    /\ pc[1] = "idle"
    /\ req.stage \in {"none", "done"}
    /\ req.n < bnd.maxReq
    /\ req' = [NoReq EXCEPT !.n = req.n + 1, !.stage = "allow", !.rq = rq,
                            !.id = Extract(cfg.perPath, rq), !.at = now]
    /\ last' = NoLast
    /\ UNCHANGED <<now, store, cfg, bnd, pc, loc, hist, seen, ideal>>

\* store.GetRateLimitInfo(identifier) is called on its own
Probe(rq) ==
    /\ pc[1] = "idle"
    /\ req.stage \in {"none", "done"}
    /\ req.n < bnd.maxReq
    /\ req' = [NoReq EXCEPT !.n = req.n + 1, !.stage = "info", !.rq = rq,
                            !.id = Extract(cfg.perPath, rq), !.at = now]
    /\ last' = NoLast
    /\ UNCHANGED <<now, store, cfg, bnd, pc, loc, hist, seen, ideal>>

\* GetRateLimitInfo has returned info; the next call for the identifier is
\* store.Allow(identifier); the info is kept for comparison
AllowNext ==
    /\ pc[1] = "idle"
    /\ req.stage = "done"
    /\ req.headers # <<>>
    /\ req.n < bnd.maxReq
    /\ req' = [NoReq EXCEPT !.n = req.n + 1, !.stage = "allow", !.rq = req.rq,
                            !.id = req.id, !.at = now, !.again = TRUE,
                            !.prev = req.headers, !.prevAt = req.infoAt]
    /\ last' = NoLast
    /\ UNCHANGED <<now, store, cfg, bnd, pc, loc, hist, seen, ideal>>

NextAgree ==
    \/ Tick /\ UNCHANGED req
    \/ \E rq \in OneCaller : Arrive(rq)
    \/ \E rq \in OneCaller : Probe(rq)
    \/ AllowNext
    \/ MWAllow
    \/ MWAllowStep
    \/ InfoBegin(1)
    \/ InfoExists(1)
    \/ InfoGet(1)
    \/ InfoState(1)

SpecAgree == InitAgree /\ [][NextAgree]_vars

----------------------------------------------------------------------------
(* A caller that keeps retrying *)

RetryMaxTime == 5
RetryMaxCount == 3
RetryMaxRequests == 2

RetryConfigs ==
    {[strategy |-> "fixed_window", limit |-> 1, windowSize |-> 2],
     [strategy |-> "sliding_window", limit |-> 1, windowSize |-> 2],
     [strategy |-> "sliding_window", limit |-> 2, windowSize |-> 2],
     [strategy |-> "token_bucket", rateNum |-> 1, rateDen |-> 2, burst |-> 1,
      expiresIn |-> 1],
     [strategy |-> "token_bucket", rateNum |-> 1, rateDen |-> 2, burst |-> 1,
      expiresIn |-> 6],
     [strategy |-> "leaky_bucket", rateNum |-> 1, rateDen |-> 2, capacity |-> 1,
      expiresIn |-> 1],
     [strategy |-> "leaky_bucket", rateNum |-> 1, rateDen |-> 2, capacity |-> 1,
      expiresIn |-> 6]}

InitRetry ==
    /\ InitCommon
    /\ \E c \in RetryConfigs : cfg = WithPerPath(c, FALSE)
    /\ bnd = [maxTime |-> RetryMaxTime, maxCount |-> RetryMaxCount,
              maxReq |-> RetryMaxRequests]

\* a second passes; req.n counts the attempts made within the second
RetryTick ==
    /\ Tick
    /\ req' = [req EXCEPT !.n = 0]

\* the caller calls Allow (again)
Attempt ==
    /\ req.n < bnd.maxReq
    /\ req' = [req EXCEPT !.n = @ + 1]
    /\ \E id \in OneId :
          CASE cfg.strategy = "fixed_window" -> FWBegin(1, id)
            [] cfg.strategy = "sliding_window" -> SWBegin(1, id)
            [] cfg.strategy = "token_bucket" -> TBBegin(1, id)
            [] cfg.strategy = "leaky_bucket" -> LBBegin(1, id)

\* the store answers the command of the call in progress
AttemptStep ==
    /\ \/ FWIncr(1)
       \/ FWExpire(1)
       \/ SWExists(1)
       \/ SWGet(1)
       \/ SWIncr(1)
       \/ SWExpire(1)
       \/ TBGet(1)
       \/ TBDecide(1)
       \/ TBSet(1)
       \/ LBGet(1)
       \/ LBDecide(1)
       \/ LBSet(1)
    /\ UNCHANGED req

NextRetry ==
    \/ RetryTick
    \/ Attempt
    \/ AttemptStep

\* the clock advances, the caller retries, the store answers
SpecRetry ==
    /\ InitRetry
    /\ [][NextRetry]_vars
    /\ WF_vars(RetryTick)
    /\ WF_vars(Attempt)
    /\ WF_vars(AttemptStep)

----------------------------------------------------------------------------
(* Identifiers of requests whose values contain the separator *)

InjectMaxRequests == 2

\* X-API-Key is any header value, c.RealIP() any address (IPv6 has colons),
\* c.Request().URL.Path any path
ColonRequests ==
    [apiKey : {"", "k1", "k1:/a"}, ip : {"10.0.0.1", "::1"},
     path : {"/a", "/b", "/a:/b"}]

InitInject ==
    /\ InitCommon
    /\ \E pp \in BOOLEAN :
          cfg = [strategy |-> "fixed_window", limit |-> 1, windowSize |-> 2,
                 perPath |-> pp]
    /\ bnd = [maxTime |-> 0, maxCount |-> 0, maxReq |-> InjectMaxRequests]

\* a request arrives: config.IdentifierExtractor(c), and the key Allow builds
Identify(rq) ==
    /\ req.n < bnd.maxReq
    /\ LET id == Extract(cfg.perPath, rq)
           key == WindowKey(FixedPrefix, id, WindowNum(now, cfg.windowSize))
       IN req' = [req EXCEPT !.n = @ + 1, !.rq = rq, !.id = id,
                             !.log = Append(@, [rq |-> rq, id |-> id, key |-> key])]
    /\ UNCHANGED <<now, store, cfg, bnd, pc, loc, hist, seen, ideal, last>>

NextInject == \E rq \in ColonRequests : Identify(rq)

SpecInject == InitInject /\ [][NextInject]_vars

----------------------------------------------------------------------------
(* Sessions: redisrepo.sessionRepository *)
(*                                                                         *)
(* Get and Delete call each other; the calls in progress are the frames of *)
(* loc[1].stack, the innermost last. A frame is the function, its          *)
(* sessionID, the statement it stands at and the session it has read.      *)

SessMaxTime == 3
SessMaxCalls == 3
MaxStack == 4

SessionIds == {"s1", "s2"}
Users == {"u1", "u2"}
Durations == {0, 1, 2}

\* fmt.Sprintf("session:%s", sessionID), fmt.Sprintf("user:%s:sessions", userID)
SessionKey(sid) == "session:" \o sid
UserSessionsKey(u) == "user:" \o u \o ":sessions"

NoSession == [id |-> "", userId |-> "", expiresAt |-> 0]

NoRet == [ok |-> FALSE, msg |-> "", session |-> NoSession]

SessLoc == [stack |-> <<>>, ret |-> NoRet]

\* the calls made so far: the sessions created (with their users), the
\* sessions for which Delete returned nil while they existed unexpired
SessReq == [n |-> 0, created |-> {}, deleted |-> {}]

SessLast(fn, sid, ret, existed) ==
    [kind |-> fn, id |-> sid, ok |-> ret.ok, msg |-> ret.msg, existed |-> existed]

InitSession ==
    /\ now = 0
    /\ store = <<>>
    /\ hist = <<>>
    /\ pc = [p \in Procs |-> "idle"]
    /\ loc = [p \in Procs |-> SessLoc]
    /\ last = NoLast
    /\ seen = [id \in AllIds |-> -1]
    /\ ideal = [id \in AllIds |-> [has |-> FALSE, tokens |-> 0, lastRefill |-> 0]]
    /\ req = SessReq
    /\ cfg = [strategy |-> "session"]
    /\ bnd = [maxTime |-> SessMaxTime, maxCount |-> 0, maxReq |-> SessMaxCalls]

\* SADD key member; SMEMBERS key
SAdd(s, k, m) ==
    [x \in DOMAIN s \cup {k} |->
        IF x = k
        THEN IF k \in DOMAIN s THEN [s[k] EXCEPT !.val = @ \cup {m}]
             ELSE [val |-> {m}, hasExp |-> FALSE, exp |-> 0]
        ELSE s[x]]

SMembers(s, k) == IF k \in DOMAIN s THEN s[k].val ELSE {}

\* DEL key
Del(s, k) == [x \in DOMAIN s \ {k} |-> s[x]]

Stack == loc[1].stack
Top == Stack[Len(Stack)]
Frame(fn, sid, at, session, dur) ==
    [fn |-> fn, sid |-> sid, at |-> at, session |-> session, dur |-> dur]

\* the innermost call moves to statement `at`
Goto(at, session) ==
    /\ loc' = [loc EXCEPT ![1].stack[Len(Stack)] =
                            [Top EXCEPT !.at = at, !.session = session]]
    /\ pc' = pc
    /\ last' = NoLast
    /\ UNCHANGED req

\* the innermost call calls fn(sid) and will continue at statement `at`; a
\* goroutine whose stack cannot grow any more ends the process
CallFrom(at, fn, sid) ==
    /\ IF Len(Stack) < MaxStack
       THEN /\ loc' = [loc EXCEPT ![1].stack =
                         Append([Stack EXCEPT ![Len(Stack)].at = at],
                                Frame(fn, sid, "start", NoSession, 0))]
            /\ pc' = pc
       ELSE /\ pc' = [pc EXCEPT ![1] = "overflow"]
            /\ loc' = loc
    /\ last' = NoLast
    /\ UNCHANGED req

\* the innermost call returns ret to its caller, or to the program
Return(ret, existed) ==
    IF Len(Stack) > 1
    THEN /\ loc' = [loc EXCEPT ![1].stack = SubSeq(Stack, 1, Len(Stack) - 1),
                               ![1].ret = ret]
         /\ pc' = pc
         /\ last' = NoLast
         /\ UNCHANGED req
    ELSE /\ loc' = [loc EXCEPT ![1] = SessLoc]
         /\ pc' = [pc EXCEPT ![1] = "idle"]
         /\ last' = SessLast(Top.fn, Top.sid, ret, existed)
         /\ req' = [req EXCEPT
                      !.created = IF Top.fn = "Create" /\ ret.ok
                                  THEN @ \cup {<<Top.sid, Top.session.userId>>}
                                  ELSE @,
                      !.deleted = IF Top.fn = "Delete" /\ ret.ok /\ existed
                                  THEN @ \cup {Top.sid} ELSE @]

\* the program calls Create(userID, duration): uuid.New(), now := time.Now()
CallCreate(u, d) ==
    /\ pc[1] = "idle"
    /\ req.n < bnd.maxReq
    /\ \E sid \in SessionIds :
          /\ sid \notin {c[1] : c \in req.created}
          /\ loc' = [loc EXCEPT ![1].stack =
                       <<Frame("Create", sid, "set",
                               [id |-> sid, userId |-> u, expiresAt |-> now + d], d)>>]
    /\ pc' = [pc EXCEPT ![1] = "run"]
    /\ req' = [req EXCEPT !.n = @ + 1]
    /\ last' = NoLast
    /\ UNCHANGED <<now, store, cfg, bnd, hist, seen, ideal>>

\* the program calls Get(sessionID) or Delete(sessionID)
CallSession(fn, sid) ==
    /\ pc[1] = "idle"
    /\ req.n < bnd.maxReq
    /\ loc' = [loc EXCEPT ![1].stack = <<Frame(fn, sid, "start", NoSession, 0)>>]
    /\ pc' = [pc EXCEPT ![1] = "run"]
    /\ req' = [req EXCEPT !.n = @ + 1]
    /\ last' = NoLast
    /\ UNCHANGED <<now, store, cfg, bnd, hist, seen, ideal>>

\* Create: s.redis.Set(ctx, sessionKey, sessionData, duration), then
\* s.redis.SAdd(ctx, userSessionsKey, sessionID)
Create ==
    /\ pc[1] = "run"
    /\ Top.fn = "Create"
    /\ CASE Top.at = "set" ->
              /\ store' = Set(store, SessionKey(Top.sid), Top.session, now, Top.dur)
              /\ Goto("sadd", Top.session)
         [] Top.at = "sadd" ->
              /\ store' = SAdd(store, UserSessionsKey(Top.session.userId), Top.sid)
              /\ Return([ok |-> TRUE, msg |-> "", session |-> Top.session], FALSE)
    /\ UNCHANGED <<now, cfg, bnd, hist, seen, ideal>>

\* Get: s.redis.Get(ctx, sessionKey); json.Unmarshal; when
\* time.Now().After(session.ExpiresAt): _ = s.Delete(ctx, sessionID) and the
\* error "session has expired"
Get ==
    /\ pc[1] = "run"
    /\ Top.fn = "Get"
    /\ CASE Top.at = "start" ->
              IF Exists(store, SessionKey(Top.sid))
              THEN Goto("check", store[SessionKey(Top.sid)].val)
              ELSE Return([NoRet EXCEPT !.msg = "session not found"], FALSE)
         [] Top.at = "check" ->
              IF now > Top.session.expiresAt
              THEN /\ CallFrom("expired", "Delete", Top.sid)
              ELSE Return([ok |-> TRUE, msg |-> "", session |-> Top.session], TRUE)
         [] Top.at = "expired" ->
              Return([NoRet EXCEPT !.msg = "session has expired"], TRUE)
    /\ UNCHANGED <<now, store, cfg, bnd, hist, seen, ideal>>

\* Delete: session, err := s.Get(ctx, sessionID), nil when that fails; then
\* s.redis.SAdd(ctx, userSessionsKey, sessionID) and
\* s.redis.Delete(ctx, sessionKey)
Delete ==
    /\ pc[1] = "run"
    /\ Top.fn = "Delete"
    /\ CASE Top.at = "start" ->
              /\ CallFrom("got", "Get", Top.sid)
              /\ UNCHANGED store
         [] Top.at = "got" ->
              /\ IF loc[1].ret.ok
                 THEN Goto("sadd", loc[1].ret.session)
                 ELSE Return([NoRet EXCEPT !.ok = TRUE], FALSE)
              /\ UNCHANGED store
         [] Top.at = "sadd" ->
              /\ store' = SAdd(store, UserSessionsKey(Top.session.userId), Top.sid)
              /\ Goto("del", Top.session)
         [] Top.at = "del" ->
              /\ store' = Del(store, SessionKey(Top.sid))
              /\ Return([NoRet EXCEPT !.ok = TRUE], TRUE)
    /\ UNCHANGED <<now, cfg, bnd, hist, seen, ideal>>

NextSession ==
    \/ Tick /\ UNCHANGED req
    \/ \E u \in Users, d \in Durations : CallCreate(u, d)
    \/ \E sid \in SessionIds : CallSession("Get", sid)
    \/ \E sid \in SessionIds : CallSession("Delete", sid)
    \/ Create
    \/ Get
    \/ Delete

\* every call in progress takes its next step
SpecSession ==
    /\ InitSession
    /\ [][NextSession]_vars
    /\ WF_vars(Create)
    /\ WF_vars(Get)
    /\ WF_vars(Delete)

----------------------------------------------------------------------------
(* Two limiters on two route groups *)

RouteMaxTime == 2
RouteMaxCount == 3

\* two limiters built by two calls of NewFixedWindowMiddleware: each store
\* has its own limit and window size; keyPrefix is the same literal and the
\* repository is the same ratelimit.GetRateLimitRepo() for both. cfg holds
\* the limiter of the route being served, cfg.other the other one.
InitRoutes ==
    /\ InitCommon
    /\ \E l1, l2 \in 1..MaxLimit :
          cfg = [strategy |-> "fixed_window", limit |-> l1, windowSize |-> 2,
                 route |-> 1, other |-> [limit |-> l2, windowSize |-> 2]]
    /\ bnd = [maxTime |-> RouteMaxTime, maxCount |-> RouteMaxCount]

\* the next request arrives on the other route group: its own limiter serves it
Dispatch ==
    /\ pc[1] = "idle"
    /\ cfg' = [cfg EXCEPT !.limit = cfg.other.limit,
                          !.windowSize = cfg.other.windowSize,
                          !.route = 3 - cfg.route,
                          !.other = [limit |-> cfg.limit,
                                     windowSize |-> cfg.windowSize]]
    /\ last' = NoLast
    /\ UNCHANGED <<now, store, bnd, pc, loc, hist, seen, ideal, req>>

NextRoutes ==
    \/ Tick /\ UNCHANGED req
    \/ Dispatch
    \/ (\E id \in Ids : FWBegin(1, id)) /\ UNCHANGED req
    \/ FWIncr(1) /\ UNCHANGED req
    \/ FWExpire(1) /\ UNCHANGED req

SpecRoutes == InitRoutes /\ [][NextRoutes]_vars

----------------------------------------------------------------------------
(* Fixed Window claims *)

\* C1: in one window, called one after another from an absent counter, the
\* first `limit` calls for an identifier are permitted and every later one
\* is denied: the n-th call to return is permitted exactly when n <= limit.
C1_FixedFirstLPermitted ==
    (last.kind = "fw" /\ last.inWin) => (last.ok <=> last.ord <= cfg.limit)

C1_Witness ==
    /\ last.kind = "fw" /\ last.inWin
    /\ cfg.limit >= 2
    /\ last.ord = cfg.limit + 1
    /\ ~last.ok

\* C2: whatever the interleaving of the calls for one identifier in one
\* window, no more than `limit` of them are permitted, and once all N have
\* returned exactly min(N, limit) were permitted.
C2_FixedConcurrentExact ==
    \A k \in DOMAIN hist :
        hist[k].allIn =>
            /\ hist[k].permits <= cfg.limit
            /\ InFlight(k) = 0 => hist[k].permits = Min(hist[k].calls, cfg.limit)

C2_Witness ==
    \E k \in DOMAIN hist :
        /\ hist[k].allIn
        /\ hist[k].conc >= 2
        /\ InFlight(k) = 0
        /\ hist[k].calls > cfg.limit
        /\ hist[k].permits = cfg.limit

\* C3: between calls, the counter of a window equals the number of calls made
\* for it, permitted or denied, also beyond the limit.
C3_FixedCountsEveryAttempt ==
    pc[1] = "idle" =>
        \A k \in DOMAIN store :
            HistOf(k).allIn => store[k].val = HistOf(k).calls

C3_Witness ==
    /\ pc[1] = "idle"
    /\ \E k \in DOMAIN store :
        /\ HistOf(k).allIn
        /\ HistOf(k).calls > cfg.limit + 1
        /\ HistOf(k).permits = cfg.limit
        /\ store[k].val = HistOf(k).calls

\* C4: the first call of an identifier in a window later than every window
\* it called in before is permitted, whatever the earlier windows counted.
C4_FixedReadmission ==
    (last.kind = "fw" /\ last.newWin) => last.ok

C4_Witness ==
    /\ last.kind = "fw" /\ last.newWin /\ last.ok
    /\ \E k \in DOMAIN store :
        /\ HistOf(k).id = last.id
        /\ HistOf(k).w < last.w
        /\ HistOf(k).calls > cfg.limit + 1
        /\ HistOf(k).permits < HistOf(k).calls

----------------------------------------------------------------------------
(* Sliding Window claims *)

\* a Sliding Window call that returned without error in the second it began
SWInstant == last.kind = "sw" /\ ~last.err /\ last.t0 = now

\* C5: Allow permits exactly when floor(previousCount * weight) + currentCount
\* < limit, with weight = 1 - (now mod windowSize)/windowSize and the counts
\* those of the two window keys when the call began.
C5_SlidingDecisionExact ==
    SWInstant =>
        (last.ok <=>
            ExactWeighted(CountOf(last.snap, last.prevKey),
                          last.t0 % cfg.windowSize, cfg.windowSize)
              + CountOf(last.snap, last.key) < cfg.limit)

\* C6: whatever the interleaving of the calls for one identifier, no more than
\* `limit` calls of a window are permitted and the window's counter never
\* exceeds `limit`.
C6_SlidingNeverExceeds ==
    \A k \in DOMAIN store :
        /\ store[k].val <= cfg.limit
        /\ HistOf(k).permits <= cfg.limit

\* C7: a permitted call adds exactly 1 to the current window's counter,
\* keeps the expiry of a counter that existed, and changes no other key; a
\* denied call leaves the whole store as it was.
C7_SlidingWriteSet ==
    /\ (SWInstant /\ last.ok) =>
          /\ DOMAIN store = DOMAIN last.snap \cup {last.key}
          /\ \A k \in DOMAIN last.snap : k # last.key => store[k] = last.snap[k]
          /\ store[last.key].val = CountOf(last.snap, last.key) + 1
          /\ IF last.key \in DOMAIN last.snap
             THEN /\ store[last.key].hasExp = last.snap[last.key].hasExp
                  /\ store[last.key].exp = last.snap[last.key].exp
             ELSE /\ store[last.key].hasExp
                  /\ store[last.key].exp = now + 2 * cfg.windowSize
    /\ (last.kind = "sw" /\ ~last.ok) => store = Alive(last.snap, now)

C7_Witness ==
    /\ SWInstant /\ last.ok
    /\ last.prevKey \in DOMAIN store
    /\ last.key \in DOMAIN last.snap

C7_WitnessDeny ==
    /\ last.kind = "sw" /\ ~last.err /\ ~last.ok
    /\ last.t0 < now
    /\ last.prevKey \in DOMAIN store
    /\ last.key \in DOMAIN store

----------------------------------------------------------------------------
(* Token Bucket claims *)

\* C8: an identifier without stored state gets exactly `burst` permits from
\* calls made one after another in the second of its first call: such a call
\* is permitted exactly when fewer than `burst` calls were permitted before.
C8_TokenStartsFull ==
    (last.kind = "tb" /\ last.born = now) => (last.ok <=> last.ord <= cfg.burst)

C8_Witness ==
    /\ last.kind = "tb" /\ last.born = now
    /\ cfg.burst >= 2
    /\ last.ord = cfg.burst + 1
    /\ ~last.ok

\* the bucket state a call that began now reads: the stored one, or a full bucket
StoredBucket(s, k, t) ==
    IF k \in DOMAIN s THEN UnmarshalBucket(s[k].val)
    ELSE [tokens |-> BurstTokens, lastRefill |-> t]

\* C9 (decision and write): a call made within one second permits exactly
\* when min(burst, tokens + elapsed * rate) >= 1 for the stored state, and a
\* permit stores that value minus 1 with lastRefill = now.
C9_TokenRefillRule ==
    (last.kind = "tb" /\ last.t0 = now) =>
        LET st == StoredBucket(last.snap, last.key, now)
            n == Min(BurstTokens, st.tokens + (now - st.lastRefill) * cfg.rateNum)
        IN /\ last.ok <=> n >= OneToken
           /\ last.ok =>
                /\ last.key \in DOMAIN store
                /\ UnmarshalBucket(store[last.key].val) =
                       [tokens |-> n - OneToken, lastRefill |-> now]

C9_RuleWitness ==
    /\ last.kind = "tb" /\ last.t0 = now /\ last.ok
    /\ last.key \in DOMAIN last.snap
    /\ UnmarshalBucket(last.snap[last.key].val).lastRefill < now
    /\ UnmarshalBucket(last.snap[last.key].val).tokens < OneToken

\* C9 (consequence): after any wait the calls are decided as the refill rule
\* decides them from the state the last permit left: a drained bucket that
\* waited d seconds permits min(burst, floor(residual + d * rate)) calls.
C9_TokenRefillAfterWait ==
    last.kind = "tb" => (last.ok <=> last.idealOk)

\* C10: a denied call leaves the store as it was: the bucket's tokens,
\* lastRefill and expiry time are those from before the call.
C10_TokenDenyNoWrite ==
    (last.kind = "tb" /\ ~last.ok) => store = Alive(last.snap, now)

C10_Witness ==
    /\ last.kind = "tb" /\ ~last.ok
    /\ last.key \in DOMAIN store
    /\ LET st == UnmarshalBucket(store[last.key].val)
       IN /\ st.lastRefill < now
          /\ Refill(st, now) > st.tokens

----------------------------------------------------------------------------
(* Leaky Bucket claims *)

\* a call that follows a permit of the same second
LBImmediate ==
    /\ last.key \in DOMAIN last.snap
    /\ UnmarshalLeaky(last.snap[last.key].val).lastLeak = now

\* C11: from an identifier without stored state, while less than 1/leakRate
\* seconds have passed since its first call, each of the first `capacity`
\* calls made one after another is permitted, and the call that immediately
\* follows them is denied.
C11_LeakyStartsEmpty ==
    (last.kind = "lb" /\ (now - last.born) * cfg.rateNum < cfg.rateDen) =>
        /\ last.ord <= cfg.capacity => last.ok
        /\ (last.ord > cfg.capacity /\ LBImmediate) => ~last.ok

\* C11 where the state cannot expire between the calls
C11_LeakyStartsEmptyNoExpiry ==
    (last.kind = "lb" /\ (now - last.born) * cfg.rateNum < cfg.rateDen
       /\ cfg.expiresIn > now - last.born) =>
        (last.ok <=> last.ord <= cfg.capacity)

C11_NoExpiryWitness ==
    /\ last.kind = "lb" /\ (now - last.born) * cfg.rateNum < cfg.rateDen
    /\ cfg.expiresIn > now - last.born
    /\ cfg.capacity >= 2
    /\ last.born < now
    /\ last.ord = cfg.capacity + 1
    /\ ~last.ok

\* the bucket state a call that began now reads: the stored one, or an empty bucket
StoredLeaky(s, k, t) ==
    IF k \in DOMAIN s THEN UnmarshalLeaky(s[k].val) ELSE LBFresh(t)

\* C12 (decision and write): a call made within one second computes
\* leaked = floor(elapsed * leakRate) from the stored lastLeak and
\* water = max(0, water - leaked), permits exactly when water < capacity, and
\* a permit stores water + 1 with lastLeak = now.
C12_LeakyDrainRule ==
    (last.kind = "lb" /\ last.t0 = now) =>
        LET st == StoredLeaky(last.snap, last.key, now)
            leaked == ((now - st.lastLeak) * cfg.rateNum) \div cfg.rateDen
            w == IF st.water - leaked > 0 THEN st.water - leaked ELSE 0
        IN /\ last.ok <=> w < cfg.capacity
           /\ last.key \in DOMAIN store
           /\ last.ok => UnmarshalLeaky(store[last.key].val) =
                            [water |-> w + 1, lastLeak |-> now]

C12_RuleWitness ==
    /\ last.kind = "lb" /\ last.t0 = now /\ last.ok
    /\ last.key \in DOMAIN last.snap
    /\ UnmarshalLeaky(last.snap[last.key].val).water = cfg.capacity
    /\ UnmarshalLeaky(last.snap[last.key].val).lastLeak < now

\* C12 (consequence): after any idle time the calls are decided as the drain
\* rule decides them from the state the last call left: a full bucket that
\* idled d seconds permits min(capacity, floor(d * leakRate)) calls.
C12_LeakyDrainAfterIdle ==
    last.kind = "lb" => (last.ok <=> last.idealOk)

----------------------------------------------------------------------------
(* Bucket claims under overlapping calls *)

\* C13: in every reachable store, whatever the interleaving of the calls and
\* the advance of the clock, a stored token bucket has 0 <= tokens <= burst
\* and a stored leaky bucket has 0 <= water <= capacity.
C13_BucketLevelInRange ==
    \A k \in DOMAIN store :
        IF cfg.strategy = "token_bucket"
        THEN /\ UnmarshalBucket(store[k].val).tokens >= 0
             /\ UnmarshalBucket(store[k].val).tokens <= BurstTokens
        ELSE /\ UnmarshalLeaky(store[k].val).water >= 0
             /\ UnmarshalLeaky(store[k].val).water <= cfg.capacity
C13_Witness ==
    /\ last.kind = "tb" /\ last.ok
    /\ last.read.tokens + (last.tnow - last.read.lastRefill) * cfg.rateNum
          > BurstTokens
    /\ \E q \in Pair : pc[q] = "tb_set"
    /\ UnmarshalBucket(store[last.key].val).tokens = BurstTokens - OneToken

C13_WitnessLeaky ==
    /\ last.kind = "lb" /\ last.ok
    /\ \E q \in Pair : pc[q] = "lb_set" /\ loc[q].ok
    /\ UnmarshalLeaky(store[last.key].val).water = cfg.capacity
\* C14: a bucket call decides on the state it read and a permit overwrites
\* the stored state with the one computed from that read, whatever other
\* calls stored meanwhile; so two overlapping calls that read a bucket with
\* exactly one token (or one free unit) are both permitted and the stored
\* level accounts for one of them only.
C14_BucketBestEffort ==
    /\ last.kind = "tb" =>
          /\ last.ok <=> Refill(last.read, last.tnow) >= OneToken
          /\ last.ok => UnmarshalBucket(store[last.key].val) =
                           [tokens |-> Refill(last.read, last.tnow) - OneToken,
                            lastRefill |-> last.tnow]
    /\ last.kind = "lb" =>
          /\ last.ok <=> Drained(last.read, last.tnow) < cfg.capacity
          /\ last.ok => UnmarshalLeaky(store[last.key].val) =
                           [water |-> Drained(last.read, last.tnow) + 1,
                            lastLeak |-> last.tnow]

\* a call has just been permitted on a bucket with exactly one token, and a
\* second call that read the same state is past its decision, permitted too
C14_Witness ==
    /\ last.kind = "tb" /\ last.ok /\ ~last.fresh
    /\ Refill(last.read, last.tnow) = OneToken
    /\ UnmarshalBucket(store[last.key].val).tokens = 0
    /\ \E q \in Pair :
          /\ pc[q] = "tb_set"
          /\ loc[q].key = last.key
          /\ loc[q].state = last.read
          /\ loc[q].newState.tokens = 0

C14_WitnessLeaky ==
    /\ last.kind = "lb" /\ last.ok /\ ~last.fresh
    /\ Drained(last.read, last.tnow) = cfg.capacity - 1
    /\ UnmarshalLeaky(store[last.key].val).water = cfg.capacity
    /\ \E q \in Pair :
          /\ pc[q] = "lb_set"
          /\ loc[q].key = last.key
          /\ loc[q].state = last.read
          /\ loc[q].ok
          /\ loc[q].newState.water = cfg.capacity

\* both of two overlapping calls were permitted and more calls were permitted
\* than the bucket had tokens: one write was lost
C14_WitnessOverAdmitted ==
    /\ last.kind = "tb" /\ last.ok /\ last.born = now
    /\ last.ord = cfg.burst + 1
    /\ Refill(last.read, last.tnow) = OneToken
    /\ UnmarshalBucket(store[last.key].val).tokens = 0

----------------------------------------------------------------------------
(* Middleware claims *)

\* the store keys an engine derives from an identifier
KeysOf(id) ==
    {WindowKey(FixedPrefix, id, w) : w \in -1..bnd.maxTime}
      \cup {WindowKey(SlidingPrefix, id, w) : w \in -1..bnd.maxTime}
      \cup {BucketKey(TokenPrefix, id), BucketKey(LeakyPrefix, id)}

\* a step of an Allow or GetRateLimitInfo call
CallStep == <<pc, loc>>' # <<pc, loc>>

\* C15: the keys of two distinct identifiers are different keys; a call for
\* A (Allow or Info, any strategy) addresses keys derived from A and keeps
\* addressing them until it returns; no step of the call adds, removes or
\* changes any other key: what a call for B reads is what B's own calls left.
C15_PartitionIsolation ==
    [][CallStep =>
         LET l == IF pc[1] = "idle" THEN loc'[1] ELSE loc[1]
         IN /\ pc[1] = "idle" =>
                  /\ \A a \in AllIds \ {req.id} : KeysOf(a) \cap KeysOf(req.id) = {}
                  /\ l.id = req.id
                  /\ l.key \in KeysOf(req.id)
                  /\ l.prevKey # "" => l.prevKey \in KeysOf(req.id)
            /\ (pc[1] # "idle" /\ pc'[1] # "idle") =>
                  /\ loc'[1].id = l.id
                  /\ loc'[1].key = l.key
                  /\ loc'[1].prevKey = l.prevKey
            /\ req'.id = req.id
            /\ \A k \in (DOMAIN store \cup DOMAIN store') \ {l.key, l.prevKey} :
                  /\ k \in DOMAIN store
                  /\ k \in DOMAIN store'
                  /\ store'[k] = store[k]]_vars

C15_Witness ==
    /\ req.stage = "done" /\ req.allowOk
    /\ \E k \in DOMAIN store :
          /\ k \notin KeysOf(req.id)
          /\ \E a \in AllIds : k \in KeysOf(a)
    /\ \E k \in DOMAIN store : k \in KeysOf(req.id)

\* C16: under a per-path middleware the same caller gets different
\* identifiers on different paths, and the first request of a caller on a
\* path is never denied, whatever the caller did on other paths.
C16_PerPathPartition ==
    /\ \A a, b \in Requests :
          (a.apiKey = b.apiKey /\ a.ip = b.ip /\ a.path # b.path) =>
              ExtractPerPath(a) # ExtractPerPath(b)
    /\ (cfg.perPath /\ req.stage \in {"info", "done"} /\ req.first) =>
          (req.allowOk \/ req.allowErr)

\* a caller is permitted on one path after a request of the same caller on
\* the other path took all that path allows
C16_Witness ==
    /\ cfg.perPath /\ req.stage = "done" /\ req.first /\ req.allowOk
    /\ \E o \in req.served :
          /\ o.apiKey = req.rq.apiKey /\ o.ip = req.rq.ip /\ o.path # req.rq.path
          /\ cfg.strategy = "fixed_window"
          /\ \E k \in DOMAIN store \cap KeysOf(ExtractPerPath(o)) :
                store[k].val >= cfg.limit

\* the limit a strategy reports in X-RateLimit-Limit
ConfiguredLimit ==
    CASE cfg.strategy \in {"fixed_window", "sliding_window"} -> cfg.limit
      [] cfg.strategy = "token_bucket" -> cfg.burst
      [] cfg.strategy = "leaky_bucket" -> cfg.capacity

\* Allow returned (false, nil) for the request being served
Denied == req.stage = "done" /\ ~req.allowOk /\ ~req.allowErr

\* C18 (as stated): every request for which Allow returned (false, nil) is
\* answered 429 with the three rate-limit headers.
C18_DeniedAlways429 ==
    Denied => (req.status = 429 /\ req.headers # <<>>)

\* C18 (amended): the identifier is extracted, Allow is called exactly once,
\* the downstream handler runs exactly when Allow returned (true, nil); on an
\* Allow error the answer is 500; on (false, nil) Info is asked once for the
\* same identifier and the answer is 429 with the headers from Info, or 500
\* when Info returned an error; the handler never runs on a non-permit.
C18_MiddlewareRouting ==
    /\ req.stage = "info" => (req.allows = 1 /\ req.handler = 0 /\ req.status = 0)
    /\ req.stage = "done" =>
          /\ req.id = Extract(cfg.perPath, req.rq)
          /\ req.allows = 1
          /\ req.handler = (IF req.allowOk THEN 1 ELSE 0)
          /\ req.allowOk => (req.status = 200 /\ req.infos = 0 /\ ~req.allowErr)
          /\ req.allowErr =>
                (req.status = 500 /\ req.infos = 0
                   /\ req.body = "Internal rate limit error")
          /\ Denied =>
                /\ req.infos = 1
                /\ req.infoId = req.id
                /\ IF req.infoErr
                   THEN req.status = 500 /\ req.headers = <<>>
                   ELSE /\ req.status = 429
                        /\ req.headers # <<>>
                        /\ req.headers.limit = ConfiguredLimit
                        /\ req.headers.remaining >= 0

C18_Witness ==
    /\ Denied /\ ~req.infoErr
    /\ req.status = 429
    /\ req.headers.remaining = 0
    /\ req.headers.reset > now

\* C19: when a store call of Allow fails, Allow returns (false, err) at once:
\* the call is over (no further store call, no retry), the handler does not
\* run, Info is not asked, and the answer is 500, never a permit or a 429.
C19_FailClosed ==
    req.failed =>
        /\ req.stage = "done"
        /\ pc[1] = "idle"
        /\ req.allows = 1
        /\ req.allowErr /\ ~req.allowOk
        /\ req.handler = 0
        /\ req.infos = 0
        /\ req.status = 500
        /\ last.kind # "none" => (last.err /\ ~last.ok)

\* a store failure after the call had already written (the counter exists)
C19_Witness ==
    /\ req.failed /\ req.status = 500
    /\ last.kind # "none" /\ last.err
    /\ last.key \in DOMAIN store
    /\ req.n = 1

\* getBucketState of an Allow call, or of an Info call, completes
GetStateStep ==
    /\ pc[1] \in {"tb_get", "lb_get", "info_state"}
    /\ pc'[1] # pc[1]

\* C20: a bucket call starts from a fresh state exactly when the key is
\* absent and the read did not fail; when the stored blob does not decode,
\* or the read fails, Allow and Info return an error; reading never changes
\* the store.
C20_ResetOnlyWhenAbsent ==
    [][GetStateStep =>
         LET k == loc[1].key
             fails == IF pc[1] = "info_state" THEN req'.infoErr ELSE last'.err
             starts == pc'[1] \in {"tb_decide", "lb_decide"} /\ loc'[1].fresh
         IN /\ store' = store
            /\ starts => k \notin DOMAIN store
            /\ (k \in DOMAIN store /\ ~Decodable(store[k].val)) => fails
            /\ (k \notin DOMAIN store /\ pc[1] # "info_state") =>
                  (starts \/ (fails /\ req'.failed))
            /\ (k \notin DOMAIN store /\ pc[1] = "info_state" /\ ~fails) =>
                  req'.headers.remaining = ConfiguredLimit]_vars

\* Allow has returned an error on a blob that does not decode, and the blob
\* is still there
C20_Witness ==
    /\ last.kind \in {"tb", "lb"} /\ last.err
    /\ ~req.failed
    /\ last.key \in DOMAIN store
    /\ store[last.key].val = Garbage
    /\ req.status = 500

C20_WitnessInfo ==
    /\ cfg.strategy \in {"token_bucket", "leaky_bucket"}
    /\ Denied /\ req.infoErr
    /\ \E k \in DOMAIN store \cap KeysOf(req.id) : store[k].val = Garbage

\* the count the limiter of the other route group reads for identifier id
CountSeenByOther(s, id) ==
    LET k == WindowKey(FixedPrefix, id, WindowNum(now, cfg.other.windowSize))
    IN IF Exists(s, k) THEN s[k].val ELSE 0

\* C17: a step of an Allow call of the limiter of one route group leaves the
\* count that the limiter of the other route group sees for the same caller
\* unchanged.
C17_LimitersIndependent ==
    [][(pc[1] # "idle" /\ CallStep) =>
          CountSeenByOther(store', loc[1].id) = CountSeenByOther(store, loc[1].id)]_vars

----------------------------------------------------------------------------
(* Adapter claims *)

\* C21: whenever the adapter answers 500, whatever store call failed and in
\* whatever step, the body is {"error": "Internal rate limit error"} and no
\* rate-limit headers of a 429 are sent.
C21_Generic500 ==
    req.status = 500 =>
        (req.body = "Internal rate limit error" /\ req.headers = <<>>)

\* C21, the part about Allow: a failure during Allow is answered with the
\* generic body.
C21_Generic500OnAllowError ==
    (req.status = 500 /\ req.allowErr) => req.body = "Internal rate limit error"

C21_AllowErrorWitness ==
    req.status = 500 /\ req.allowErr /\ req.failed

\* the request carries neither an API key nor a network origin
NoIdentity(rq) == rq.apiKey = "" /\ rq.ip = ""

\* C22: a request without API key and without origin is refused by the
\* extraction: Allow is never called for it and the handler never runs.
C22_NoIdentityRefused ==
    (req.stage # "none" /\ NoIdentity(req.rq)) =>
        (req.allows = 0 /\ req.handler = 0)

ExtractInputs ==
    [apiKey : {"", "k1", "10.0.0.1"}, ip : {"", "10.0.0.1", "k1"}, path : {"/a"}]

\* C24: the identifier is "api:<key>" when X-API-Key is non-empty and
\* "ip:<origin>" otherwise; it is a function of the request alone, computing
\* it touches neither the store nor a call, and an API-key identifier is
\* never equal to an IP identifier.
C24_IdentifierExtraction ==
    [][IF req'.n = req.n
       THEN req'.id = req.id /\ req'.rq = req.rq
       ELSE /\ \A rq \in ExtractInputs :
                  ExtractGlobal(rq) = IF rq.apiKey # ""
                                      THEN "api:" \o rq.apiKey
                                      ELSE "ip:" \o rq.ip
            /\ \A a, b \in ExtractInputs :
                  (a.apiKey # "" /\ b.apiKey = "") =>
                     \A pp \in BOOLEAN : Extract(pp, a) # Extract(pp, b)
            /\ ~cfg.perPath =>
                  req'.id = IF req'.rq.apiKey # ""
                            THEN "api:" \o req'.rq.apiKey
                            ELSE "ip:" \o req'.rq.ip
            /\ store' = store
            /\ pc' = pc
            /\ \A o \in req.served :
                  o = req'.rq => Extract(cfg.perPath, o) = req'.id]_vars

\* a request with an API key is served after one without: the first was
\* identified by its origin, this one by its key
C24_Witness ==
    /\ ~cfg.perPath
    /\ req.stage = "allow"
    /\ req.rq.apiKey = "k1" /\ req.id = "api:k1"
    /\ \E o \in req.served : o.apiKey = "" /\ o.ip = "10.0.0.1"

----------------------------------------------------------------------------
(* Info claims *)

\* a GetRateLimitInfo call returns its result in this step
InfoReturns == req.stage = "info" /\ req'.stage = "done" /\ req'.status = 429

\* C25: Fixed Window Info returns the configured limit, remaining =
\* max(0, limit - count) for the count of the window of the call (0 when the
\* counter is absent), and reset = (windowIndex + 1) * windowSize; remaining
\* is 0, not negative, when the count is above the limit.
C25_FixedWindowInfo ==
    [][(InfoReturns /\ cfg.strategy = "fixed_window") =>
         LET w == loc[1].t0 \div cfg.windowSize
             k == WindowKey(FixedPrefix, req.id, w)
             count == IF k \in DOMAIN store THEN store[k].val ELSE 0
         IN /\ store' = store
            /\ req'.headers.limit = cfg.limit
            /\ req'.headers.remaining =
                  (IF cfg.limit - count > 0 THEN cfg.limit - count ELSE 0)
            /\ req'.headers.reset = (w + 1) * cfg.windowSize]_vars

\* Info after denied calls pushed the count above the limit
C25_Witness ==
    /\ cfg.strategy = "fixed_window"
    /\ Denied /\ req.status = 429
    /\ \E k \in DOMAIN store \cap KeysOf(req.id) : store[k].val > cfg.limit + 1
    /\ req.headers.remaining = 0
    /\ req.headers.reset > now

\* Info when the counter of the window is absent
C25_WitnessAbsent ==
    /\ cfg.strategy = "fixed_window"
    /\ Denied /\ req.status = 429
    /\ req.headers.remaining = cfg.limit

\* Info was called again after a first result, and returned a result
InfoRepeated == req.again /\ req.stage = "done" /\ req.status = 429

SameResult ==
    /\ req.headers.remaining = req.prev.remaining
    /\ req.headers.reset = req.prev.reset

\* C26 (as stated): Info called again without an intervening Allow returns
\* the remaining and the reset it returned before.
C26_InfoNeverChanges ==
    InfoRepeated => SameResult

\* C26 (amended): no step of an Info call writes the store, and Info called
\* again without an intervening Allow returns the same remaining and reset
\* as long as the clock has not advanced since the call before began; for
\* Fixed Window, as long as the window in which that call began has not
\* ended.
C26_InfoReadOnlyIdempotent ==
    [][/\ (CallStep /\ (pc[1] \in InfoPcs \/ pc'[1] \in InfoPcs)) => store' = store
       /\ (req.stage = "info" /\ req'.stage = "done" /\ req'.again
             /\ req'.status = 429) =>
             /\ now = req'.prevAt =>
                   /\ req'.headers.remaining = req'.prev.remaining
                   /\ req'.headers.reset = req'.prev.reset
             /\ (cfg.strategy = "fixed_window"
                   /\ now \div cfg.windowSize = req'.prevAt \div cfg.windowSize) =>
                   /\ req'.headers.remaining = req'.prev.remaining
                   /\ req'.headers.reset = req'.prev.reset]_vars

\* a second result in the second of the first, equal to it, with a stored
\* counter or bucket behind it
C26_Witness ==
    /\ InfoRepeated /\ now = req.prevAt /\ SameResult
    /\ req.headers.remaining = 0
    /\ \E k \in DOMAIN store : k \in KeysOf(req.id)

\* a second result that differs from the first: time has passed
C26_WitnessLater ==
    /\ InfoRepeated /\ now > req.prevAt /\ ~SameResult

----------------------------------------------------------------------------
(* Store contract claims *)

C28_PreviousWindowNeverMisses ==
    [][Windowed =>
         /\ \A k \in DOMAIN store \cap DOMAIN store' : store'[k].val >= store[k].val
         /\ DOMAIN store \subseteq DOMAIN store' \/ now' = now + 1
         /\ DOMAIN store' # DOMAIN store =>
               \A id \in AllIds, w \in 0..bnd.maxTime :
                  /\ WindowKey(SlidingPrefix, id, w) \in DOMAIN store \ DOMAIN store'
                        => now' >= (w + 2) * cfg.windowSize
                  /\ WindowKey(FixedPrefix, id, w) \in DOMAIN store \ DOMAIN store'
                        => now' >= (w + 1) * cfg.windowSize]_vars

\* in the last second of a window, a Sliding Window call reads the counter
\* of the window before: it is there
C28_Witness ==
    /\ cfg.strategy = "sliding_window"
    /\ pc[1] = "sw_get" /\ loc[1].phase = "prev"
    /\ now = (loc[1].w + 1) * cfg.windowSize - 1
    /\ loc[1].t0 = now
    /\ loc[1].prevKey \in DOMAIN store
    /\ store[loc[1].prevKey].val >= 1

\* a Sliding Window counter has expired, two windows after its own began
C28_WitnessExpired ==
    /\ cfg.strategy = "sliding_window"
    /\ store = <<>>
    /\ req.n >= 1 /\ req.allowOk
    /\ now = 2 * cfg.windowSize

----------------------------------------------------------------------------
(* State expiry *)

\* C29: every bucket call is decided as the same call is decided against a
\* state that never expires: expiry of the stored state changes no decision.
C29_ExpiryIsGarbageCollection ==
    last.kind \in {"tb", "lb"} => (last.ok = last.idealOk)

\* C29, when the state outlives the run: the decisions are those of the
\* state that never expires.
C29_AgreesWithoutExpiry ==
    (last.kind \in {"tb", "lb"} /\ cfg.expiresIn > bnd.maxTime) =>
        (last.ok = last.idealOk)

C29_AgreesWitness ==
    /\ last.kind = "tb" /\ cfg.expiresIn > bnd.maxTime
    /\ ~last.ok /\ ~last.idealOk
    /\ now > 0

\* C30: with a store that answers every command, no Sliding Window Allow and
\* no Fixed or Sliding Window Info returns an error: a counter that is
\* absent, or that disappears while Check is in progress, reads as 0.
C30_AbsentCounterNeverFails ==
    Windowed => (~req.allowErr /\ ~req.infoErr)

----------------------------------------------------------------------------
(* Rate claims *)

\* C31: with calls one after another and a state that does not expire, the
\* permitted calls whose instants lie in any interval of T seconds number at
\* most burst + rate * T.
C31_TokenBucketRateBound ==
    \A i, j \in DOMAIN req.log :
        i <= j =>
            (j - i + 1) * cfg.rateDen
                <= cfg.burst * cfg.rateDen + cfg.rateNum * (req.log[j] - req.log[i])

\* the bound is attained over an interval of more than a second
C31_Witness ==
    \E i, j \in DOMAIN req.log :
        /\ req.log[j] >= req.log[i] + 2
        /\ cfg.burst >= 2
        /\ (j - i + 1) * cfg.rateDen
              = cfg.burst * cfg.rateDen + cfg.rateNum * (req.log[j] - req.log[i])

\* the keys the engine of the given tag writes for the identifiers in use
EngineKeys(tag) ==
    CASE tag = "sliding_window" ->
            {WindowKey(SlidingPrefix, id, w) : id \in AllIds, w \in 0..SelMaxTime + 1}
      [] tag = "token_bucket" -> {BucketKey(TokenPrefix, id) : id \in AllIds}
      [] tag = "leaky_bucket" -> {BucketKey(LeakyPrefix, id) : id \in AllIds}
      [] OTHER ->
            {WindowKey(FixedPrefix, id, w) : id \in AllIds, w \in 0..SelMaxTime + 1}

C32_WitnessLeaky ==
    /\ cfg.repoSet
    /\ cfg.config.Strategy = "leaky_bucket"
    /\ cfg.config.Limit # cfg.config.Burst
    /\ cfg.capacity = cfg.config.Burst
    /\ req.stage = "done"
    /\ req.allowOk

----------------------------------------------------------------------------
(* GetRateLimitInfo against Allow *)

\* Allow has returned a decision in this step
AllowDecides == last'.kind \in {"fw", "sw", "tb", "lb"} /\ ~last'.err

\* GetRateLimitInfo has returned info in this step
InfoAnswered == req.headers = <<>> /\ req'.headers # <<>>

\* C33: an Allow that follows a GetRateLimitInfo for the same identifier at the
\* same instant, nothing in between, permits exactly when the info said
\* remaining > 0; the info taken right after a denial at the same instant says
\* remaining = 0.
C33_InfoAgreesWithAllow ==
    [][/\ (AllowDecides /\ req.again /\ req.prevAt = now') =>
             (last'.ok <=> req.prev.remaining > 0)
       /\ (InfoAnswered /\ req.allows = 1 /\ req.at = now') =>
             req'.headers.remaining = 0]_vars

\* the info said remaining > 0 and the Allow at that instant permitted, on a
\* store in which the identifier had been counted before
C33_Witness ==
    /\ req.again
    /\ req.stage = "done"
    /\ req.allowOk
    /\ req.prevAt = now
    /\ req.prev.remaining > 0
    /\ req.prev.remaining < req.prev.limit

\* the info said remaining = 0 and the Allow at that instant denied
C33_WitnessDenied ==
    /\ req.again
    /\ req.stage \in {"info", "done"}
    /\ req.allows = 1
    /\ ~req.allowOk
    /\ req.prevAt = now
    /\ req.at = now
    /\ req.prev.remaining = 0
    /\ cfg.strategy = "leaky_bucket"

\* the info right after a denial at the same instant
C33_WitnessAfterDenial ==
    /\ req.stage = "done"
    /\ req.allows = 1
    /\ req.at = now
    /\ req.headers # <<>>
    /\ req.headers.remaining = 0
    /\ cfg.strategy = "sliding_window"

----------------------------------------------------------------------------
(* Readmission *)

\* Allow has just returned (false, nil) / (true, nil)
LockedOut == last.kind # "none" /\ ~last.ok /\ ~last.err
Readmitted == last.kind # "none" /\ last.ok

\* the seconds after which the engine's rule has room again: the window, both
\* windows, the time one token takes to refill or one unit to leak
Recovery ==
    CASE cfg.strategy = "fixed_window" -> cfg.windowSize
      [] cfg.strategy = "sliding_window" -> 2 * cfg.windowSize
      [] OTHER -> (cfg.rateDen + cfg.rateNum - 1) \div cfg.rateNum

\* what a denied call has left behind
DenialLeaves ==
    LET before == Alive(last.snap, now)
        others == DOMAIN store = DOMAIN before \cup {last.key}
                    /\ \A k \in DOMAIN before : k # last.key => store[k] = before[k]
    IN  CASE last.kind = "fw" ->
               /\ last.key = WindowKey(FixedPrefix, last.id,
                                       WindowNum(last.t0, cfg.windowSize))
               /\ \A w \in WindowNum(last.t0, cfg.windowSize) + 1 .. bnd.maxTime :
                     ~Exists(store, WindowKey(FixedPrefix, last.id, w))
          [] last.kind = "lb" ->
               /\ others
               /\ UnmarshalLeaky(store[last.key].val) = last.read
               /\ last.key \in DOMAIN last.snap =>
                     store[last.key].val = last.snap[last.key].val
          [] OTHER -> store = before

\* C34: when the clock advances, the store answers and the caller keeps
\* retrying, a denial is followed by a permitted call (in the bounded run: a
\* denial from which the clock can still advance by the recovery time); a
\* denied call writes nothing that later calls are decided on: Fixed Window
\* counts it in the window of the call only, Sliding Window and Token Bucket
\* write nothing, Leaky Bucket rewrites the water and lastLeak it read.
C34_NoPermanentLockOut ==
    /\ [](LockedOut => DenialLeaves)
    /\ []((LockedOut /\ now + Recovery <= bnd.maxTime) => <>Readmitted)

\* a full leaky bucket permits again once one unit has leaked
C34_Witness ==
    /\ Readmitted
    /\ last.kind = "lb"
    /\ ~last.fresh
    /\ last.t0 = now
    /\ (now - last.read.lastLeak) = Recovery
    /\ last.read.water = cfg.capacity

\* a Fixed Window caller denied in one window and permitted in the next
C34_WitnessFixed ==
    /\ Readmitted
    /\ last.kind = "fw"
    /\ \E k \in DOMAIN store : k # last.key /\ store[k].val > cfg.limit

----------------------------------------------------------------------------
(* Leaky Bucket: what a denial writes *)

\* C35: a Leaky Bucket Allow that read the state returns through exactly one
\* SetState, also when it denies (no other step of the call writes); a denial
\* writes the water and lastLeak that were stored, with a new expiry: the leak
\* computed by a denied call is zero, so no unit is subtracted without lastLeak
\* moving.
C35_LeakyDenialKeepsLevel ==
    [][/\ (CallStep /\ store' # store) => (pc[1] = "lb_set" /\ pc'[1] = "idle")
       /\ last'.kind = "lb" =>
             /\ pc[1] = "lb_set"
             /\ last'.key \in DOMAIN store'
             /\ store'[last'.key].exp = now + cfg.expiresIn
             /\ \A k \in DOMAIN store : k # last'.key => store'[k] = store[k]
       /\ (last'.kind = "lb" /\ ~last'.ok) =>
             /\ ~last'.fresh
             /\ Leaked(last'.read, last'.tnow) = 0
             /\ UnmarshalLeaky(store'[last'.key].val) = last'.read
             /\ last'.key \in DOMAIN store =>
                   store'[last'.key].val = store[last'.key].val]_vars

\* a denial some time after the last permit: the blob is the one stored, the
\* expiry is later than the one it had
C35_Witness ==
    /\ last.kind = "lb"
    /\ ~last.ok
    /\ last.tnow > last.read.lastLeak
    /\ last.key \in DOMAIN last.snap
    /\ store[last.key].val = last.snap[last.key].val
    /\ store[last.key].exp > last.snap[last.key].exp

----------------------------------------------------------------------------
(* Window counters and their expiry *)

\* C36: whenever no IncrementPreserveTTL call is in progress, every window
\* counter in the store has an expiry, at most one (Fixed) or two (Sliding)
\* window lengths away, also after a call that returned an error.
C36_CountersAlwaysExpire ==
    (Windowed /\ pc[1] = "idle") =>
        \A k \in DOMAIN store :
            /\ store[k].hasExp
            /\ store[k].exp <= now + (IF cfg.strategy = "fixed_window"
                                      THEN cfg.windowSize
                                      ELSE 2 * cfg.windowSize)

----------------------------------------------------------------------------
(* Identifier construction *)

\* the source kind and the credential or origin value of a request
SourceOf(rq) == IF rq.apiKey # "" THEN <<"api", rq.apiKey>> ELSE <<"ip", rq.ip>>

\* C37: two requests that differ in source kind, in credential or origin
\* value or, under the per-path middleware, in path get different identifiers
\* and different store keys, also when a value contains ':'.
C37_IdentifierInjective ==
    \A i, j \in DOMAIN req.log :
        (\/ SourceOf(req.log[i].rq) # SourceOf(req.log[j].rq)
         \/ cfg.perPath /\ req.log[i].rq.path # req.log[j].rq.path) =>
            /\ req.log[i].id # req.log[j].id
            /\ req.log[i].key # req.log[j].key

\* what does hold: the middleware that is not per-path separates the sources
C37_GlobalInjective ==
    ~cfg.perPath =>
        \A i, j \in DOMAIN req.log :
            SourceOf(req.log[i].rq) # SourceOf(req.log[j].rq) =>
                /\ req.log[i].id # req.log[j].id
                /\ req.log[i].key # req.log[j].key

C37_GlobalWitness ==
    /\ ~cfg.perPath
    /\ Len(req.log) = 2
    /\ req.log[1].rq.apiKey = "k1:/a"
    /\ req.log[2].rq.apiKey = "k1"

----------------------------------------------------------------------------
(* Session claims *)

\* Get, called by the program, has read a session whose ExpiresAt is past
ExpiredGet ==
    /\ pc[1] = "run"
    /\ Stack[1].fn = "Get"
    /\ Stack[1].at = "check"
    /\ now > Stack[1].session.expiresAt
    /\ Exists(store, SessionKey(Stack[1].sid))

\* that Get has returned "session has expired" and the session is deleted
ExpiredReturned ==
    /\ last.kind = "Get"
    /\ last.msg = "session has expired"
    /\ ~Exists(store, SessionKey(last.id))

\* C38: a Get that reads a session whose key exists and whose ExpiresAt is in
\* the past deletes the session and returns "session has expired".
C38_ExpiredGetTerminates == [](ExpiredGet => <>ExpiredReturned)

\* C39: after Delete returned nil for an existing, unexpired session its key
\* is absent and its ID is in no user's set; between calls the set of a user
\* holds exactly the IDs of the user's sessions created and not deleted.
C39_DeleteRemovesEverywhere ==
    /\ (last.kind = "Delete" /\ last.ok /\ last.existed) =>
          /\ ~Exists(store, SessionKey(last.id))
          /\ \A u \in Users : last.id \notin SMembers(store, UserSessionsKey(u))
    /\ (cfg.strategy = "session" /\ pc[1] = "idle") =>
          \A u \in Users :
              SMembers(store, UserSessionsKey(u))
                = {c[1] : c \in {x \in req.created :
                                    x[2] = u /\ x[1] \notin req.deleted}}

\* what Delete does remove: the session key
C39_DeleteRemovesKey ==
    (last.kind = "Delete" /\ last.ok /\ last.existed) =>
        ~Exists(store, SessionKey(last.id))

C39_KeyWitness ==
    /\ last.kind = "Delete" /\ last.ok /\ last.existed
    /\ \E u \in Users : last.id \in SMembers(store, UserSessionsKey(u))

=============================================================================
